---- MODULE Spec2Model ----
(***************************************************************************)
(* State-machine model of the A-share short-term decision tools            *)
(* (tools/market_data.py, tools/money_flow.py, tools/fusion_engine.py,     *)
(* tools/debug_utils.py).                                                   *)
(*                                                                         *)
(* Every public operation is a synchronous, stateless computation over the *)
(* answers of the upstream data provider.  One action models one whole     *)
(* invocation: it draws the upstream answers (the "world" of the call),    *)
(* runs the operation and records the returned payload, the upstream calls *)
(* it made, the scorers the fusion engine invoked, and whether an          *)
(* exception escaped to the caller.                                        *)
(*                                                                         *)
(* Numbers.  Python floats are modelled as fixed-point integers:           *)
(*   - percentages, ratios, prices, scores: hundredths (5.5 is 550);       *)
(*   - amounts of money and counts: whole units;                           *)
(*   - round(x, 2) is round-half-even on the exact value (an exact tie is  *)
(*     the only place where the binary representation can differ).         *)
(* Text cells are sequences of one-character tokens; the magnitude         *)
(* suffixes of the provider are the tokens "YI" (1e8) and "WAN" (1e4).     *)
(***************************************************************************)
EXTENDS Integers, Sequences, FiniteSets, TLC

VARIABLES op, args, up, ret, calls, invoked

vars == <<op, args, up, ret, calls, invoked>>

-----------------------------------------------------------------------------
(* Arithmetic helpers *)

Min2(a, b) == IF a <= b THEN a ELSE b

Max2(a, b) == IF a >= b THEN a ELSE b

RECURSIVE Gcd(_, _)
Gcd(a, b) == IF b = 0 THEN a ELSE Gcd(b, a % b)

Abs(n) == IF n < 0 THEN -n ELSE n

\* exact fractions n/d (d > 0, lowest terms) for the unrounded float terms
Frac(n, d) ==
    LET g == Gcd(Abs(n), Abs(d))
        sg == IF d < 0 THEN -1 ELSE 1
    IN  [n |-> sg * (n \div g), d |-> sg * (d \div g)]

FInt(k) == [n |-> k, d |-> 1]

FAdd(a, b) == Frac(a.n * b.d + b.n * a.d, a.d * b.d)

FMul(a, b) == Frac(a.n * b.n, a.d * b.d)

FLe(a, b) == a.n * b.d <= b.n * a.d

FLt(a, b) == a.n * b.d < b.n * a.d

FMin(a, b) == IF FLe(a, b) THEN a ELSE b

FMax(a, b) == IF FLe(b, a) THEN a ELSE b

\* tools/indicators.py clamp(x, lo, hi), lo and hi integers
Clamp(x, lo, hi) == FMax(FInt(lo), FMin(FInt(hi), x))

\* round(n/d) to the nearest integer, ties to even (Python round); d > 0
RoundDiv(n, d) ==
    LET q == n \div d
        r == n % d
    IN  IF 2 * r > d THEN q + 1
        ELSE IF 2 * r = d THEN (IF q % 2 = 1 THEN q + 1 ELSE q)
        ELSE q

\* int(n/d): truncation toward zero; d > 0
TruncDiv(n, d) == IF n >= 0 THEN n \div d ELSE -((-n) \div d)

\* round(x, k) of a fraction, as an integer count of 10^-k
RoundTo(x, k) == RoundDiv(x.n * (IF k = 2 THEN 100 ELSE 10000), x.d)

Round2(x) == RoundTo(x, 2)

RECURSIVE Pow10(_)
Pow10(k) == IF k = 0 THEN 1 ELSE 10 * Pow10(k - 1)

\* sum of F(i) for i in lo..hi (halving keeps the evaluation shallow)
RECURSIVE SumOver(_, _, _)
SumOver(F(_), lo, hi) ==
    IF lo > hi THEN 0
    ELSE IF lo = hi THEN F(lo)
    ELSE LET mid == (lo + hi) \div 2
         IN  SumOver(F, lo, mid) + SumOver(F, mid + 1, hi)

SumSeq(s) == SumOver(LAMBDA i : s[i], 1, Len(s))

\* largest member of a non-empty set of integers
MaxOf(S) == CHOOSE m \in S : \A x \in S : x <= m

Take(s, n) == SubSeq(s, 1, Min2(Len(s), Max2(n, 0)))

-----------------------------------------------------------------------------
(* Cell values of an upstream row *)

NoneV == [t |-> "none", v |-> 0, s |-> <<>>]

NumV(x) == [t |-> "num", v |-> x, s |-> <<>>]

NaNV == [t |-> "nan", v |-> 0, s |-> <<>>]

InfV == [t |-> "inf", v |-> 0, s |-> <<>>]

StrV(chars) == [t |-> "str", v |-> 0, s |-> chars]

Absent == [t |-> "absent", v |-> 0, s |-> <<>>]

HasKey(row, key) == key \in DOMAIN row /\ row[key].t # "absent"

IsEmptyStr(val) == val.t = "str" /\ val.s = <<>>

Digits == {"0", "1", "2", "3", "4", "5", "6", "7", "8", "9"}

DigitVal(c) ==
    CASE c = "0" -> 0 [] c = "1" -> 1 [] c = "2" -> 2 [] c = "3" -> 3
      [] c = "4" -> 4 [] c = "5" -> 5 [] c = "6" -> 6 [] c = "7" -> 7
      [] c = "8" -> 8 [] c = "9" -> 9

-----------------------------------------------------------------------------
(* Text handling: str.strip(), str.replace(",", ""), float(text), str(int) *)

RECURSIVE LStrip(_)
LStrip(s) == IF s # <<>> /\ Head(s) = " " THEN LStrip(Tail(s)) ELSE s

RECURSIVE RStrip(_)
RStrip(s) ==
    IF s # <<>> /\ s[Len(s)] = " " THEN RStrip(SubSeq(s, 1, Len(s) - 1)) ELSE s

Strip(s) == RStrip(LStrip(s))

RemoveCommas(s) == SelectSeq(s, LAMBDA c : c # ",")

AllDigits(s) == \A i \in 1..Len(s) : s[i] \in Digits

RECURSIVE DigitsVal(_)
DigitsVal(s) ==
    IF s = <<>> THEN 0
    ELSE 10 * DigitsVal(SubSeq(s, 1, Len(s) - 1)) + DigitVal(s[Len(s)])

RECURSIVE NatChars(_)
NatChars(n) ==
    LET d == <<"0", "1", "2", "3", "4", "5", "6", "7", "8", "9">>[(n % 10) + 1]
    IN  IF n < 10 THEN <<d>> ELSE Append(NatChars(n \div 10), d)

\* str(n) of an integer
IntChars(n) == IF n < 0 THEN <<"-">> \o NatChars(-n) ELSE NatChars(n)

BadFloat == [ok |-> FALSE, kind |-> "err", m |-> 0, d |-> 0]

\* float(text): surrounding blanks are ignored; an optional sign; then
\* "nan", "inf", or decimal digits with at most one point.  The result is
\* the mantissa m and the number of decimals d (the value is m / 10^d).
ParseFloat(text) ==
    LET Fin(m, d) == [ok |-> TRUE, kind |-> "fin", m |-> m, d |-> d]
        Decimal(sgn, ip, fp) ==
            IF AllDigits(ip) /\ AllDigits(fp) /\ Len(ip) + Len(fp) > 0
            THEN Fin(sgn * DigitsVal(ip \o fp), Len(fp))
            ELSE BadFloat
        SplitAt(sgn, body, p) ==
            Decimal(sgn, SubSeq(body, 1, p - 1), SubSeq(body, p + 1, Len(body)))
        Unsigned(sgn, body, dots) ==
            IF body = <<"n", "a", "n">>
            THEN [ok |-> TRUE, kind |-> "nan", m |-> 0, d |-> 0]
            ELSE IF body = <<"i", "n", "f">>
            THEN [ok |-> TRUE, kind |-> "inf", m |-> 0, d |-> 0]
            ELSE IF dots = {} THEN
                IF body # <<>> /\ AllDigits(body)
                THEN Fin(sgn * DigitsVal(body), 0)
                ELSE BadFloat
            ELSE IF Cardinality(dots) = 1
            THEN SplitAt(sgn, body, CHOOSE i \in dots : TRUE)
            ELSE BadFloat
        Signed(sgn, body) ==
            Unsigned(sgn, body, {i \in 1..Len(body) : body[i] = "."})
        Stripped(t) ==
            Signed(IF t # <<>> /\ Head(t) = "-" THEN -1 ELSE 1,
                   IF t # <<>> /\ Head(t) \in {"-", "+"} THEN Tail(t) ELSE t)
    IN  Stripped(Strip(text))

\* the value m / 10^d of a parsed float, times mult, truncated to an integer
Scaled(pf, mult) == TruncDiv(pf.m * mult, Pow10(pf.d))

-----------------------------------------------------------------------------
(* Numeric Normalizer (market_data.py and money_flow.py hold the same code) *)

Yi == 100000000

Wan == 10000

\* fixed-point factor of the values read by _num (two decimals)
Centi == 10 * 10

\* _normalize_number(value): an amount in whole units, always finite
NormalizeNumber(value) ==
    LET Parsed(pf, unit) ==
            IF pf.ok /\ pf.kind = "fin" THEN Scaled(pf, unit) ELSE 0
        Suffixed(text, n, unit) ==
            Parsed(ParseFloat(IF unit = 1 THEN text ELSE SubSeq(text, 1, n - 1)),
                   unit)
        Sized(text, n) ==
            Suffixed(text, n,
                     IF n > 0 /\ text[n] = "YI" THEN Yi
                     ELSE IF n > 0 /\ text[n] = "WAN" THEN Wan
                     ELSE 1)
        Cleaned(text) ==
            IF text \in {<<"-">>, <<"-", "-">>} THEN 0
            ELSE Sized(text, Len(text))
    IN  IF value.t = "none" \/ IsEmptyStr(value) THEN 0
        ELSE IF value.t = "num" THEN value.v
        ELSE IF value.t \in {"nan", "inf"} THEN 0
        ELSE Cleaned(RemoveCommas(Strip(value.s)))

\* row[key] in (0, "0", "0.0")
IsLiteralZero(value) ==
    \/ value.t = "num" /\ value.v = 0
    \/ value.t = "str" /\ value.s \in {<<"0">>, <<"0", ".", "0">>}

\* mutant of NumUnit: a field holding a literal zero is skipped like a
\* placeholder
RECURSIVE NumUnitNoLiteralZero(_, _, _)
NumUnitNoLiteralZero(row, keys, default) ==
    LET Step(parsed) ==
            IF parsed # 0 THEN parsed
            ELSE NumUnitNoLiteralZero(row, Tail(keys), default)
    IN  IF keys = <<>> THEN default
        ELSE IF HasKey(row, Head(keys))
             THEN Step(NormalizeNumber(row[Head(keys)]))
        ELSE NumUnitNoLiteralZero(row, Tail(keys), default)

\* _num_unit(row, keys, default)
RECURSIVE NumUnit(_, _, _)
NumUnit(row, keys, default) ==
    LET Step(cell, parsed) ==
            IF parsed # 0 \/ IsLiteralZero(cell) THEN parsed
            ELSE NumUnit(row, Tail(keys), default)
    IN  IF keys = <<>> THEN default
        ELSE IF HasKey(row, Head(keys))
             THEN Step(row[Head(keys)], NormalizeNumber(row[Head(keys)]))
        ELSE NumUnit(row, Tail(keys), default)

\* float(value) as _num uses it: a cell in hundredths, NaN or infinity
\* (ok = FALSE: float() raised)
FloatOf(value) ==
    LET Parsed(pf) ==
            IF ~pf.ok THEN [ok |-> FALSE, val |-> NoneV]
            ELSE IF pf.kind = "nan" THEN [ok |-> TRUE, val |-> NaNV]
            ELSE IF pf.kind = "inf" THEN [ok |-> TRUE, val |-> InfV]
            ELSE [ok |-> TRUE, val |-> NumV(Scaled(pf, Centi))]
    IN  IF value.t \in {"num", "nan", "inf"} THEN [ok |-> TRUE, val |-> value]
        ELSE Parsed(ParseFloat(value.s))

\* _num(row, keys, default): default is a number in hundredths
RECURSIVE Num(_, _, _)
Num(row, keys, default) ==
    LET Step(f) == IF f.ok THEN f.val ELSE Num(row, Tail(keys), default)
    IN  IF keys = <<>> THEN NumV(default)
        ELSE IF /\ HasKey(row, Head(keys))
                /\ row[Head(keys)].t # "none"
                /\ ~IsEmptyStr(row[Head(keys)])
             THEN Step(FloatOf(row[Head(keys)]))
        ELSE Num(row, Tail(keys), default)

\* str(value).strip()
StrOf(value) ==
    IF value.t = "str" THEN Strip(value.s)
    ELSE IF value.t = "num" THEN IntChars(value.v)
    ELSE IF value.t = "nan" THEN <<"n", "a", "n">>
    ELSE <<"i", "n", "f">>

\* _str(row, keys, default)
RECURSIVE Str(_, _, _)
Str(row, keys, default) ==
    IF keys = <<>> THEN default
    ELSE IF HasKey(row, Head(keys)) /\ row[Head(keys)].t # "none"
         THEN StrOf(row[Head(keys)])
    ELSE Str(row, Tail(keys), default)

-----------------------------------------------------------------------------
(* The normalizer on its own: rows of three candidate fields *)

Chars(str) ==
    CASE str = "" -> <<>>
      [] str = "-" -> <<"-">>
      [] str = "--" -> <<"-", "-">>
      [] str = " -- " -> <<" ", "-", "-", " ">>
      [] str = "abc" -> <<"a", "b", "c">>
      [] str = "nan" -> <<"n", "a", "n">>
      [] str = "0" -> <<"0">>
      [] str = "0.0" -> <<"0", ".", "0">>
      [] str = "0.00" -> <<"0", ".", "0", "0">>
      [] str = "12" -> <<"1", "2">>
      [] str = " 5.5 " -> <<" ", "5", ".", "5", " ">>
      [] str = "1,234" -> <<"1", ",", "2", "3", "4">>
      [] str = "1.5YI" -> <<"1", ".", "5", "YI">>
      [] str = "-3WAN" -> <<"-", "3", "WAN">>

SampleTexts ==
    {"", "-", "--", " -- ", "abc", "nan", "0", "0.0", "0.00", "12", " 5.5 ",
     "1,234", "1.5YI", "-3WAN"}

SampleCells ==
    {Absent, NoneV, NaNV, InfV, NumV(0), NumV(7), NumV(-3)}
        \cup {StrV(Chars(x)) : x \in SampleTexts}

NormKeys == {"k1", "k2", "k3"}

NormRows == [NormKeys -> SampleCells]

KeyLists == {<<"k1", "k2", "k3">>, <<"k2", "k1">>, <<"k3">>}

NormDefaults == {0, 5}

Returned(x) == [raised |-> FALSE, value |-> x]

Raised == [raised |-> TRUE, value |-> <<>>]

Init ==
    /\ op = "idle"
    /\ args = <<>>
    /\ up = <<>>
    /\ ret = Returned(<<>>)
    /\ calls = <<>>
    /\ invoked = <<>>

\* the caller takes the result: nothing is kept between two invocations
Finish ==
    /\ op # "idle"
    /\ op' = "idle"
    /\ args' = <<>>
    /\ up' = <<>>
    /\ ret' = Returned(<<>>)
    /\ calls' = <<>>
    /\ invoked' = <<>>

ResolveNumUnit ==
    /\ op = "idle"
    /\ \E row \in NormRows, keys \in KeyLists, d \in NormDefaults :
        /\ op' = "num_unit"
        /\ args' = [row |-> row, keys |-> keys, default |-> d]
        /\ ret' = Returned(NumV(NumUnit(row, keys, d)))
        /\ UNCHANGED <<up, calls, invoked>>

ResolveNum ==
    /\ op = "idle"
    /\ \E row \in NormRows, keys \in KeyLists, d \in NormDefaults :
        /\ op' = "num"
        /\ args' = [row |-> row, keys |-> keys, default |-> d]
        /\ ret' = Returned(Num(row, keys, d))
        /\ UNCHANGED <<up, calls, invoked>>

NextNorm == ResolveNumUnit \/ ResolveNum \/ Finish

SpecNorm == Init /\ [][NextNorm]_vars

\* the candidate positions of args.keys whose cell satisfies P
Candidates(P(_)) ==
    {i \in 1..Len(args.keys) :
        HasKey(args.row, args.keys[i]) /\ P(args.row[args.keys[i]])}

LeastOf(S) == CHOOSE i \in S : \A j \in S : i <= j

PresentNonEmpty(cell) == cell.t # "none" /\ ~IsEmptyStr(cell)

\* C9 (as claimed): the resolver returns the parsed value of the first
\* candidate field that is present and non-empty (a placeholder or an
\* unparseable text parsing to 0.0), the default when there is none, and the
\* result is always finite.
C9_FirstPresentNonEmpty ==
    op \in {"num_unit", "num"} =>
        /\ ~ret.raised
        /\ ret.value.t = "num"
        /\ LET c == Candidates(PresentNonEmpty)
           IN  op = "num_unit" =>
                   ret.value.v = IF c = {} THEN args.default
                                 ELSE NormalizeNumber(args.row[args.keys[LeastOf(c)]])

Usable(cell) == NormalizeNumber(cell) # 0 \/ IsLiteralZero(cell)

Parseable(cell) == PresentNonEmpty(cell) /\ FloatOf(cell).ok

\* C9 (amended): _num_unit returns the parsed value of the first candidate
\* field that is present and either parses to a non-zero finite amount or is
\* a literal zero (0, "0", "0.0"); null, empty, dash-only, unparseable and
\* non-finite cells are skipped like absent ones, and the default is the
\* result when no field is usable.  It never fails and its result is finite.
\* _num returns float() of the first present, non-empty field that float()
\* accepts (possibly NaN or infinity), else the default.
C9_FirstUsable ==
    /\ op = "num_unit" =>
        /\ ~ret.raised
        /\ ret.value.t = "num"
        /\ LET c == Candidates(Usable)
           IN  ret.value.v = IF c = {} THEN args.default
                             ELSE NormalizeNumber(args.row[args.keys[LeastOf(c)]])
        /\ \A i \in 1..Len(args.keys) :
               (i \notin Candidates(Usable) /\ HasKey(args.row, args.keys[i]))
                   => NormalizeNumber(args.row[args.keys[i]]) = 0
    /\ op = "num" =>
        /\ ~ret.raised
        /\ LET c == Candidates(Parseable)
           IN  ret.value = IF c = {} THEN NumV(args.default)
                           ELSE FloatOf(args.row[args.keys[LeastOf(c)]]).val

\* C9 witness: a dash-only placeholder in the first field, a magnitude-suffixed
\* amount in the second; the resolver has returned the second field's value.
C9_Witness ==
    /\ op = "num_unit"
    /\ args.keys = <<"k1", "k2", "k3">>
    /\ args.row["k1"] = StrV(<<"-", "-">>)
    /\ args.row["k2"] = StrV(<<"1", ".", "5", "YI">>)
    /\ ret.value = NumV(150000000)

-----------------------------------------------------------------------------
(* tools/debug_utils.py *)

LowerChar(c) ==
    CASE c = "O" -> "o" [] c = "N" -> "n" [] c = "T" -> "t" [] c = "R" -> "r"
      [] c = "U" -> "u" [] c = "E" -> "e" [] c = "Y" -> "y" [] c = "S" -> "s"
      [] OTHER -> c

Lower(s) == [i \in 1..Len(s) |-> LowerChar(s[i])]

DebugOnWords ==
    {<<"1">>, <<"t", "r", "u", "e">>, <<"y", "e", "s">>, <<"o", "n">>}

\* resolve_debug(debug) with SHORT_DECISION_DEBUG = raw
ResolveDebug(debug, raw) == debug \/ Lower(Strip(raw)) \in DebugOnWords

\* mutant of WithDebug: the diagnostics replace the payload's data_source
WithDebugRetag(payload, debug, info) ==
    IF ~debug THEN payload
    ELSE [k \in DOMAIN payload \cup {"debug_info"} |->
            IF k = "debug_info" THEN info
            ELSE IF k = "data_source" THEN "debug"
            ELSE payload[k]]

\* with_debug(payload, debug, debug_info)
WithDebug(payload, debug, info) ==
    IF ~debug THEN payload
    ELSE [k \in DOMAIN payload \cup {"debug_info"} |->
            IF k = "debug_info" THEN info ELSE payload[k]]

-----------------------------------------------------------------------------
(* Upstream answers *)

\* an upstream call either raises (ok = FALSE) or returns a frame; a frame
\* that is None, not a DataFrame or empty yields no records
Fail == [ok |-> FALSE, rows |-> <<>>]

Frame(rows) == [ok |-> TRUE, rows |-> rows]

\* _to_records(frame)
ToRecords(resp) == resp.rows

Repeat(x, n) == [i \in 1..n |-> x]

Call(api, arg, resp) == [api |-> api, arg |-> arg, ok |-> resp.ok]

\* amounts beyond the model's integers are kept as two limbs: hi * 1e8 + lo
Wide(n) == [hi |-> n \div Yi, lo |-> n % Yi]

-----------------------------------------------------------------------------
(* Market Sentiment Scorer: market_data.py get_market_sentiment *)

ProbeDays == 10

\* weekday (Monday = 0) of the day `offset` days before a day of weekday `today`
WeekdayBefore(today, offset) == (today + 7 * ProbeDays - offset) % 7

\* every one of the last days, the weekend's too
RecentDates(today) == [i \in 1..ProbeDays |-> i - 1]

\* _recent_trade_dates(): the offsets 0..days-1 that fall on a weekday, newest first
RecentTradeDates(today) ==
    SelectSeq([i \in 1..ProbeDays |-> i - 1],
              LAMBDA o : WeekdayBefore(today, o) < 5)

HeightKeys == <<"lianbanshu", "lianban", "lianbangaodu", "jitianjiban">>

StateKeys == <<"zhuangtai", "zhangtingzhuangtai", "fengbanzhuangtai">>

AmountKeys == <<"chengjiaoe", "chengjiaoe_yuan", "amount">>

SealedWords == {<<"feng", "ban">>, <<"zhang", "ting">>}

\* re.search(r"(\d+)", text): the first maximal run of digits, <<>> if none
RECURSIVE DigitRun(_)
DigitRun(s) ==
    IF s = <<>> \/ Head(s) \notin Digits THEN <<>>
    ELSE <<Head(s)>> \o DigitRun(Tail(s))

RECURSIVE FirstDigits(_)
FirstDigits(s) ==
    IF s = <<>> THEN <<>>
    ELSE IF Head(s) \in Digits THEN DigitRun(s)
    ELSE FirstDigits(Tail(s))

\* _parse_board_height(raw) of a text
ParseBoardHeight(raw) ==
    IF raw = <<>> THEN 0
    ELSE LET run == FirstDigits(Strip(raw))
         IN  IF run = <<>> THEN 0 ELSE DigitsVal(run)

\* the four clamped terms of the sentiment score, unrounded
SentimentScore(limitUp, limitDown, maxHeight, breakRate) ==
    FAdd(FAdd(Clamp(Frac(limitUp * 45, 70), 0, 45),
              Clamp(Frac((12 - limitDown) * 20, 12), 0, 20)),
         FAdd(Clamp(Frac(maxHeight * 20, 6), 0, 20),
              Clamp(FMul(FAdd(Frac(35, 100), FMul(FInt(-1), breakRate)),
                         Frac(15 * 100, 35)), 0, 15)))

FallbackTurnover == [hi |-> 9800, lo |-> 0]

\* _fallback_market_sentiment(debug, debug_info)
FallbackMarketSentiment(debug, info) ==
    WithDebug([date |-> 0,
               limit_up |-> 42,
               limit_down |-> 9,
               max_height |-> 3,
               break_rate |-> RoundTo(Frac(21, 100), 4),
               turnover |-> FallbackTurnover,
               market_sentiment_score |->
                   Round2(SentimentScore(42, 9, 3, Frac(21, 100))),
               data_source |-> "fallback"],
              debug, info)

\* mutant of ProbeLimitUp: only the newest date is probed
ProbeLimitUpNewest(w, dates) ==
    IF dates = <<>> THEN [date |-> -1, rows |-> <<>>, calls |-> <<>>]
    ELSE LET d    == Head(dates)
             resp == w.zt[d + 1]
             call == Call("stock_zt_pool_em", d, resp)
         IN  IF resp.ok /\ ToRecords(resp) # <<>>
             THEN [date |-> d, rows |-> ToRecords(resp), calls |-> <<call>>]
             ELSE [date |-> -1, rows |-> <<>>, calls |-> <<call>>]

\* the date-probe loop: the calls made and the first non-empty limit-up pool
RECURSIVE ProbeLimitUp(_, _)
ProbeLimitUp(w, dates) ==
    IF dates = <<>> THEN [date |-> -1, rows |-> <<>>, calls |-> <<>>]
    ELSE LET d    == Head(dates)
             resp == w.zt[d + 1]
             call == Call("stock_zt_pool_em", d, resp)
         IN  IF resp.ok /\ ToRecords(resp) # <<>>
             THEN [date |-> d, rows |-> ToRecords(resp), calls |-> <<call>>]
             ELSE LET rest == ProbeLimitUp(w, Tail(dates))
                  IN  [rest EXCEPT !.calls = <<call>> \o @]

\* max_height over the limit-up rows, starting from 0
MaxHeight(rows) ==
    MaxOf({0} \cup {ParseBoardHeight(Str(rows[i], HeightKeys, <<"1">>)) :
                        i \in 1..Len(rows)})

\* limit-up rows whose status text is present and not a "sealed" word
UnsealedCount(rows) ==
    Len(SelectSeq(rows, LAMBDA r :
            LET state == Str(r, StateKeys, <<>>)
            IN  state # <<>> /\ state \notin SealedWords))

SumAmounts(rows, keys) ==
    SumOver(LAMBDA i : NumUnit(rows[i], keys, 0), 1, Len(rows))

\* get_market_sentiment(debug) in world w; debug is the resolved flag
GetMarketSentiment(w, debug) ==
    LET mod == "get_market_sentiment" IN
    IF ~w.runtime THEN
        [ret |-> Returned(FallbackMarketSentiment(debug,
                    [module |-> mod, fallback_reason |-> "akshare_or_pandas_missing",
                     api_calls |-> <<>>])),
         calls |-> <<>>]
    ELSE
    LET probe == ProbeLimitUp(w, RecentTradeDates(w.today)) IN
    IF probe.rows = <<>> THEN
        [ret |-> Returned(FallbackMarketSentiment(debug,
                    [module |-> mod, fallback_reason |-> "empty_limit_up_pool",
                     api_calls |-> probe.calls])),
         calls |-> probe.calls]
    ELSE
    LET dtRecords == IF w.dt.ok THEN ToRecords(w.dt) ELSE <<>>
        zbRecords == IF w.hasZb /\ w.zb.ok THEN ToRecords(w.zb) ELSE <<>>
        calls1    == probe.calls
                        \o <<Call("stock_zt_pool_dtgc_em", probe.date, w.dt)>>
                        \o (IF w.hasZb
                            THEN <<Call("stock_zt_pool_zbgc_em", probe.date, w.zb)>>
                            ELSE <<>>)
                        \o <<Call("stock_zh_a_spot_em", -1, w.spot)>>
        limitUp   == Len(probe.rows)
        limitDown == Len(dtRecords)
        maxHeight == MaxHeight(probe.rows)
        breakCnt  == IF Len(zbRecords) # 0 THEN Len(zbRecords)
                     ELSE UnsealedCount(probe.rows)
        total     == limitUp + breakCnt
        breakRate == IF total # 0 THEN Frac(breakCnt, total) ELSE FInt(0)
        turnover  == IF w.spot.ok THEN SumAmounts(ToRecords(w.spot), AmountKeys)
                     ELSE 0
        score     == SentimentScore(limitUp, limitDown, maxHeight, breakRate)
        payload   == [date |-> probe.date,
                      limit_up |-> limitUp,
                      limit_down |-> limitDown,
                      max_height |-> maxHeight,
                      break_rate |-> RoundTo(breakRate, 4),
                      turnover |-> Wide(turnover),
                      market_sentiment_score |-> Round2(score),
                      data_source |-> "akshare-live"]
    IN  [ret |-> Returned(WithDebug(payload, debug,
                    [module |-> mod, fallback_reason |-> "",
                     api_calls |-> calls1])),
         calls |-> calls1]

-----------------------------------------------------------------------------
(* Worlds of one get_market_sentiment call *)

\* argument flag and SHORT_DECISION_DEBUG value of a call
DebugCases ==
    {[debug |-> FALSE, env |-> <<>>],
     [debug |-> TRUE, env |-> <<>>],
     [debug |-> FALSE, env |-> <<" ", "O", "n">>],
     [debug |-> FALSE, env |-> <<"0">>]}

Sealed == StrV(<<"feng", "ban">>)

Broken == StrV(<<"zha", "ban">>)

ZtFew ==
    <<[lianbanshu |-> NumV(3), zhuangtai |-> Sealed],
      [jitianjiban |-> StrV(<<"5", "tian", "4", "ban">>), zhuangtai |-> Broken]>>

ZtOdd == <<[lianbanshu |-> NaNV, zhuangtai |-> StrV(<<>>)]>>

ManyRows == 71

ZtMany == Repeat([lianbanshu |-> StrV(<<"9", "9">>), fengbanzhuangtai |-> Sealed],
                 ManyRows)

ZtRowChoices == {ZtFew, ZtOdd, ZtMany}

\* which probed days answer with rows: the three newest, or three older
\* ones after newer days that fail and return nothing in turn
ZtWith(rows) ==
    {[i \in 1..ProbeDays |-> IF i <= 3 THEN Frame(rows) ELSE Frame(<<>>)],
     [i \in 1..ProbeDays |->
        IF i \in 5..7 THEN Frame(rows) ELSE IF i % 2 = 1 THEN Fail ELSE Frame(<<>>)]}

ZtNone ==
    {[i \in 1..ProbeDays |-> Frame(<<>>)],
     [i \in 1..ProbeDays |-> IF i % 2 = 1 THEN Fail ELSE Frame(<<>>)]}

ZtChoices == ZtNone \cup UNION {ZtWith(rows) : rows \in ZtRowChoices}

PoolChoices ==
    {Fail, Frame(<<>>), Frame(Repeat([daima |-> NoneV], 2)),
     Frame(Repeat([daima |-> NoneV], 13))}

\* the broken-board endpoint: missing, or present with one of its answers
BrokenPoolChoices ==
    {[hasZb |-> FALSE, zb |-> Fail]}
    \cup {[hasZb |-> TRUE, zb |-> z] : z \in PoolChoices \ {Frame(Repeat([daima |-> NoneV], 13))}}

SpotAmounts ==
    {Fail,
     Frame(<<[chengjiaoe |-> StrV(<<"-", "-">>), amount |-> NumV(500)],
             [chengjiaoe |-> StrV(<<"1", ".", "5", "YI">>)],
             [chengjiaoe |-> NaNV]>>)}

Weekdays == {0, 3, 6}

NoRuntime == [runtime |-> FALSE]

SentimentWorlds ==
    {NoRuntime} \cup
    {[runtime |-> TRUE, today |-> t, zt |-> z, dt |-> d, hasZb |-> b.hasZb,
      zb |-> b.zb, spot |-> s] :
        t \in Weekdays, z \in ZtChoices, d \in PoolChoices \ {Frame(Repeat([daima |-> NoneV], 2))},
        b \in BrokenPoolChoices, s \in SpotAmounts}

CallSentiment ==
    /\ op = "idle"
    /\ \E w \in SentimentWorlds, dc \in DebugCases :
        LET Done(r) ==
                /\ op' = "get_market_sentiment"
                /\ args' = dc
                /\ up' = w
                /\ ret' = r.ret
                /\ calls' = r.calls
                /\ invoked' = <<>>
        IN  Done(GetMarketSentiment(w, ResolveDebug(dc.debug, dc.env)))

-----------------------------------------------------------------------------
(* Sector Rotation Scorer: market_data.py get_sector_rotation *)

SectorNameKeys == <<"bankuaimingcheng", "mingcheng">>

ChangeKeys == <<"zhangdiefu", "zhangdiefu_pct">>

SectorTurnoverKeys == <<"chengjiaoe", "zongchengjiaoe", "zongshizhi">>

UpCountKeys == <<"shangzhangjiashu">>

LimitUpCountKeys == <<"zhangtingjiashu">>

BoardCodeKeys == <<"bankuaidaima", "daima">>

\* int(x) of a float raises on NaN (ValueError) and infinity (OverflowError)
IntRaises(cell) == cell.t \in {"nan", "inf"}

\* int(x) of a finite value held in hundredths
IntOf(cell) == TruncDiv(cell.v, Centi)

\* a finite value held in hundredths, as a fraction
FracOf(cell) == Frac(cell.v, Centi)

\* sort(key, reverse=True): descending and stable (ties keep their order);
\* Ge(a, b) compares the keys of a and b
RECURSIVE InsertDesc(_, _, _)
InsertDesc(Ge(_, _), sorted, x) ==
    IF sorted = <<>> THEN <<x>>
    ELSE IF Ge(Head(sorted), x)
         THEN <<Head(sorted)>> \o InsertDesc(Ge, Tail(sorted), x)
         ELSE <<x>> \o sorted

RECURSIVE SortDesc(_, _)
SortDesc(Ge(_, _), s) ==
    IF s = <<>> THEN <<>>
    ELSE InsertDesc(Ge, SortDesc(Ge, SubSeq(s, 1, Len(s) - 1)), s[Len(s)])

\* the static sectors of _fallback_sector_rotation
FallbackSectors ==
    <<[name |-> <<"AI-Compute">>, change_pct |-> 420,
       turnover |-> [hi |-> 620, lo |-> 0], limit_up_count |-> 7, strength |-> 8520],
      [name |-> <<"Semiconductor">>, change_pct |-> 360,
       turnover |-> [hi |-> 580, lo |-> 0], limit_up_count |-> 5, strength |-> 7980],
      [name |-> <<"Robotics">>, change_pct |-> 290,
       turnover |-> [hi |-> 440, lo |-> 0], limit_up_count |-> 4, strength |-> 7230]>>

\* _fallback_sector_rotation(debug, debug_info)
FallbackSectorRotation(debug, info) ==
    WithDebug([date |-> 0, top_sectors |-> FallbackSectors,
               data_source |-> "fallback"], debug, info)

\* the three clamped terms of a sector's strength, unrounded
SectorStrength(changePct, turnover, maxTurnover, limitUpCount) ==
    FAdd(FAdd(Clamp(FMul(FracOf(changePct), Frac(45, 7)), 0, 45),
              Clamp(FMul(Frac(turnover, maxTurnover), FInt(25)), 0, 25)),
         Clamp(Frac(limitUpCount * 30, 12), 0, 30))

\* one iteration of the loop over sector_rows (no int() of it raising)
SectorEntry(row, maxTurnover) ==
    LET changePct == Num(row, ChangeKeys, 0)
        turnover  == NumUnit(row, SectorTurnoverKeys, 0)
        upCount   == IntOf(Num(row, UpCountKeys, 0))
        limitUp0  == IntOf(Num(row, LimitUpCountKeys, 0))
        limitUp   == IF limitUp0 = 0 /\ upCount > 0
                     THEN TruncDiv(upCount * 8, 100) ELSE limitUp0
    IN  [name |-> Str(row, SectorNameKeys, <<"UNKNOWN">>),
         change_pct |-> changePct.v,
         turnover |-> Wide(turnover),
         limit_up_count |-> limitUp,
         board_code |-> Str(row, BoardCodeKeys, <<>>),
         strength |-> Round2(SectorStrength(changePct, turnover, maxTurnover, limitUp))]

SectorRowRaises(row) ==
    \/ IntRaises(Num(row, UpCountKeys, 0))
    \/ IntRaises(Num(row, LimitUpCountKeys, 0))

\* get_sector_rotation(top_n, debug) in world w; debug is the resolved flag
GetSectorRotation(w, topN, debug) ==
    LET mod == "get_sector_rotation" IN
    IF ~w.runtime THEN
        [ret |-> Returned(FallbackSectorRotation(debug,
                    [module |-> mod, fallback_reason |-> "akshare_or_pandas_missing",
                     api_calls |-> <<>>])),
         calls |-> <<>>]
    ELSE
    LET rows1  == IF w.industry.ok THEN ToRecords(w.industry) ELSE <<>>
        second == rows1 = <<>> /\ w.hasConcept
        rows   == IF ~second THEN rows1
                  ELSE IF w.concept.ok THEN ToRecords(w.concept) ELSE <<>>
        calls1 == <<Call("stock_board_industry_name_em", -1, w.industry)>>
                    \o (IF second
                        THEN <<Call("stock_board_concept_name_em", -1, w.concept)>>
                        ELSE <<>>)
    IN
    IF rows = <<>> THEN
        [ret |-> Returned(FallbackSectorRotation(debug,
                    [module |-> mod, fallback_reason |-> "no_sector_rows",
                     api_calls |-> calls1])),
         calls |-> calls1]
    ELSE IF \E i \in 1..Len(rows) : SectorRowRaises(rows[i]) THEN
        [ret |-> Raised, calls |-> calls1]
    ELSE
    LET max0    == MaxOf({NumUnit(rows[i], SectorTurnoverKeys, 0) : i \in 1..Len(rows)})
        maxT    == IF max0 = 0 THEN 1 ELSE max0
        sectors == SortDesc(LAMBDA a, b : a.strength >= b.strength,
                            [i \in 1..Len(rows) |-> SectorEntry(rows[i], maxT)])
        payload == [date |-> 0, top_sectors |-> Take(sectors, topN),
                    data_source |-> "akshare-live"]
    IN  [ret |-> Returned(WithDebug(payload, debug,
                    [module |-> mod, fallback_reason |-> "",
                     api_calls |-> calls1])),
         calls |-> calls1]

-----------------------------------------------------------------------------
(* Worlds of one get_sector_rotation call *)

SectorRow(name, change, turnover, rising, limitUp) ==
    [mingcheng |-> StrV(<<name>>), zhangdiefu |-> change, chengjiaoe |-> turnover,
     shangzhangjiashu |-> rising, zhangtingjiashu |-> limitUp,
     daima |-> StrV(<<"BK", name>>)]

\* a strong sector, two sectors of equal strength, and one with a negative
\* change and turnover
SectorsPlain ==
    <<SectorRow("Chips", NumV(350), NumV(4000), NumV(4000), NumV(300)),
      SectorRow("Banks", NumV(350), NumV(4000), NumV(4000), NumV(300)),
      SectorRow("AI-Compute", NumV(9900), StrV(<<"1", ".", "5", "YI">>),
                NumV(12000), NumV(5000)),
      SectorRow("Coal", NumV(-500), NumV(-7000), NumV(0), NoneV)>>

\* limit-up count missing: approximated from the count of rising stocks
SectorsApprox ==
    <<SectorRow("Robotics", StrV(<<"6", ".", "2", "5">>), StrV(<<"-", "-">>),
                NumV(6000), NumV(0)),
      SectorRow("Semiconductor", NumV(120), NumV(0), StrV(<<"-", "-">>), NoneV)>>

\* a missing cell of a numeric column arrives as NaN
SectorsNaN ==
    <<SectorRow("Chips", NumV(350), NumV(4000), NaNV, NumV(300)),
      SectorRow("Banks", NumV(100), NumV(100), NumV(1000), NumV(0))>>

SectorFrames ==
    {Fail, Frame(<<>>), Frame(SectorsPlain), Frame(SectorsApprox), Frame(SectorsNaN)}

SectorWorlds ==
    {NoRuntime} \cup
    [runtime : {TRUE}, industry : SectorFrames, hasConcept : BOOLEAN,
     concept : SectorFrames]

MaxTopN == 5

CallSectorRotation ==
    /\ op = "idle"
    /\ \E w \in SectorWorlds, n \in 0..MaxTopN, dc \in DebugCases :
        LET Done(r) ==
                /\ op' = "get_sector_rotation"
                /\ args' = [debug |-> dc.debug, env |-> dc.env, top_n |-> n]
                /\ up' = w
                /\ ret' = r.ret
                /\ calls' = r.calls
                /\ invoked' = <<>>
        IN  Done(GetSectorRotation(w, n, ResolveDebug(dc.debug, dc.env)))

-----------------------------------------------------------------------------
(* Stock Scanner: market_data.py scan_strong_stocks *)

CodeKeys == <<"daima", "gupiaodaima">>

StockNameKeys == <<"mingcheng", "gupiaomingcheng">>

SpotChangeKeys == <<"zhangdiefu">>

VolumeRatioKeys == <<"liangbi">>

IndustryKeys == <<"suochuhangye", "hangye">>

CloseKeys == <<"shoupan">>

OpenKeys == <<"kaipan">>

VolumeKeys == <<"chengjiaoliang">>

PreFilterChange == 450

DeepFilterChange == 500

MinVolumeRatio == 150

UniverseCap == 120

MinHistoryRows == 5

\* x > c and x <= c for a float x held in hundredths: both false of NaN
Gt(cell, c) == cell.t = "num" /\ cell.v > c

Le(cell, c) == cell.t = "num" /\ cell.v <= c

\* StockCandidate.to_dict()
ToDict(c) ==
    [code |-> c.code, name |-> c.name, change_pct |-> c.change_pct,
     volume_ratio |-> Round2(c.volume_ratio), strength_rank |-> c.strength_rank,
     sector |-> c.sector]

FallbackBase ==
    <<[code |-> <<"300001">>, name |-> <<"DemoTech">>, change_pct |-> 810,
       volume_ratio |-> 240, strength_rank |-> 1, sector |-> <<"AI-Compute">>],
      [code |-> <<"002345">>, name |-> <<"ChipStar">>, change_pct |-> 680,
       volume_ratio |-> 190, strength_rank |-> 2, sector |-> <<"Semiconductor">>],
      [code |-> <<"688888">>, name |-> <<"RoboCore">>, change_pct |-> 550,
       volume_ratio |-> 170, strength_rank |-> 3, sector |-> <<"Robotics">>]>>

InList(x, list) == \E i \in 1..Len(list) : list[i] = x

\* [dict(item, debug_info=...) for item in out]
ItemsWithDebug(items, debug, info) ==
    [i \in 1..Len(items) |-> WithDebug(items[i], debug, info)]

\* _fallback_scan_strong_stocks(sectors, top_n, debug, debug_info)
FallbackScanStrongStocks(sectors, topN, debug, info) ==
    LET filt == SelectSeq(FallbackBase, LAMBDA x : InList(x.sector, sectors))
        out  == IF sectors # <<>> /\ filt # <<>> THEN Take(filt, topN)
                ELSE Take(FallbackBase, topN)
    IN  ItemsWithDebug(out, debug, info)

\* tools/indicators.py trend_up(values, lookback): the last `lookback`
\* values rise strictly
TrendUp(values, lookback) ==
    /\ Len(values) >= lookback
    /\ \A i \in (Len(values) - lookback + 2)..Len(values) :
           values[i] > values[i - 1]

\* tools/indicators.py volume_ratio(current, baseline)
VolumeRatio(current, baseline) ==
    IF baseline.n <= 0 THEN FInt(0) ELSE FMul(FInt(current), Frac(baseline.d, baseline.n))

\* the constituent codes of the listed sectors and the calls made for them
\* (the concept endpoint is used only when the industry one does not exist)
ResolveAllowed(w, sectors) ==
    LET Resp(name) == IF w.hasIndustryCons THEN w.industryCons[name]
                      ELSE w.conceptCons[name]
        Api        == IF w.hasIndustryCons THEN "stock_board_industry_cons_em"
                      ELSE "stock_board_concept_cons_em"
        called     == w.hasIndustryCons \/ w.hasConceptCons
        CodesOf(name) ==
            IF ~called \/ ~Resp(name).ok THEN {}
            ELSE {Str(ToRecords(Resp(name))[j], CodeKeys, <<>>) :
                    j \in 1..Len(ToRecords(Resp(name)))} \ {<<>>}
    IN  [codes |-> UNION {CodesOf(sectors[i]) : i \in 1..Len(sectors)},
         calls |-> IF called
                   THEN [i \in 1..Len(sectors) |-> Call(Api, sectors[i], Resp(sectors[i]))]
                   ELSE <<>>,
         log |-> IF called
                 THEN [i \in 1..Len(sectors) |->
                        Call(IF Resp(sectors[i]).ok THEN Api ELSE "board_cons",
                             sectors[i], Resp(sectors[i]))]
                 ELSE <<>>]

\* mutant of DeepFilter: a history of fewer than 5 rows is not rejected
DeepFilterShortHistory(w, row, constrained, codes) ==
    LET Column(records, keys) ==
            [i \in 1..Len(records) |-> Num(records[i], keys, 0).v]
        Baseline(window) == Frac(SumSeq(window), Max2(Len(window), 1))
        Verdict(code, changePct, early, resp, volRatio, pass) ==
            [pass |-> pass,
             calls |-> IF early THEN <<>>
                       ELSE <<Call("stock_zh_a_hist", code, resp)>>,
             log |-> IF early \/ resp.ok THEN <<>>
                     ELSE <<Call("stock_zh_a_hist", code, resp)>>,
             cand |-> IF ~pass THEN <<>>
                      ELSE [code |-> code,
                            name |-> Str(row, StockNameKeys, <<>>),
                            change_pct |-> changePct.v,
                            volume_ratio |-> volRatio,
                            strength_rank |-> 0,
                            sector |-> Str(row, IndustryKeys, <<"UNKNOWN">>)]]
        Judged(code, changePct, early, resp, n, closes, opens, volRatio) ==
            Verdict(code, changePct, early, resp, volRatio,
                    /\ ~early
                    /\ resp.ok
                    /\ n >= 3
                    /\ TrendUp(closes, 3)
                    /\ FLt(Frac(MinVolumeRatio, Centi), volRatio)
                    /\ ~(/\ opens[n] > closes[n]
                         /\ FLt(IF closes[n - 1] # 0
                                THEN Frac((closes[n] - closes[n - 1]) * 100,
                                          closes[n - 1])
                                ELSE FInt(0),
                                FInt(-2))
                         /\ FLt(Frac(22, 10), volRatio)))
        Measured(code, changePct, early, resp, n, closes, opens, volumes) ==
            Judged(code, changePct, early, resp, n, closes, opens,
                   VolumeRatio(volumes[n],
                               Baseline(SubSeq(volumes, Max2(1, n - 5), n - 1))))
        Fetched(code, changePct, early, resp, records) ==
            Measured(code, changePct, early, resp, Len(records),
                     Column(records, CloseKeys), Column(records, OpenKeys),
                     Column(records, VolumeKeys))
        Screened(code, changePct, early) ==
            Fetched(code, changePct, early, w.hist[code], ToRecords(w.hist[code]))
        Quoted(code, changePct, fieldRate) ==
            Screened(code, changePct,
                     \/ Le(changePct, DeepFilterChange)
                     \/ Le(fieldRate, MinVolumeRatio)
                     \/ (constrained /\ code \notin codes))
    IN  Quoted(Str(row, CodeKeys, <<>>), Num(row, SpotChangeKeys, 0),
               Num(row, VolumeRatioKeys, 0))

\* the loop body over the universe: reject on the first failing rule
DeepFilter(w, row, constrained, codes) ==
    LET Column(records, keys) ==
            [i \in 1..Len(records) |-> Num(records[i], keys, 0).v]
        Baseline(window) == Frac(SumSeq(window), Max2(Len(window), 1))
        Verdict(code, changePct, early, resp, volRatio, pass) ==
            [pass |-> pass,
             calls |-> IF early THEN <<>>
                       ELSE <<Call("stock_zh_a_hist", code, resp)>>,
             log |-> IF early \/ resp.ok THEN <<>>
                     ELSE <<Call("stock_zh_a_hist", code, resp)>>,
             cand |-> IF ~pass THEN <<>>
                      ELSE [code |-> code,
                            name |-> Str(row, StockNameKeys, <<>>),
                            change_pct |-> changePct.v,
                            volume_ratio |-> volRatio,
                            strength_rank |-> 0,
                            sector |-> Str(row, IndustryKeys, <<"UNKNOWN">>)]]
        Judged(code, changePct, early, resp, n, closes, opens, volRatio) ==
            Verdict(code, changePct, early, resp, volRatio,
                    /\ ~early
                    /\ resp.ok
                    /\ n >= MinHistoryRows
                    /\ TrendUp(closes, 3)
                    /\ FLt(Frac(MinVolumeRatio, Centi), volRatio)
                    /\ ~(/\ opens[n] > closes[n]
                         /\ FLt(IF closes[n - 1] # 0
                                THEN Frac((closes[n] - closes[n - 1]) * 100,
                                          closes[n - 1])
                                ELSE FInt(0),
                                FInt(-2))
                         /\ FLt(Frac(22, 10), volRatio)))
        Measured(code, changePct, early, resp, n, closes, opens, volumes) ==
            Judged(code, changePct, early, resp, n, closes, opens,
                   VolumeRatio(volumes[n],
                               Baseline(SubSeq(volumes, Max2(1, n - 5), n - 1))))
        Fetched(code, changePct, early, resp, records) ==
            Measured(code, changePct, early, resp, Len(records),
                     Column(records, CloseKeys), Column(records, OpenKeys),
                     Column(records, VolumeKeys))
        Screened(code, changePct, early) ==
            Fetched(code, changePct, early, w.hist[code], ToRecords(w.hist[code]))
        Quoted(code, changePct, fieldRate) ==
            Screened(code, changePct,
                     \/ Le(changePct, DeepFilterChange)
                     \/ Le(fieldRate, MinVolumeRatio)
                     \/ (constrained /\ code \notin codes))
    IN  Quoted(Str(row, CodeKeys, <<>>), Num(row, SpotChangeKeys, 0),
               Num(row, VolumeRatioKeys, 0))

RECURSIVE Flatten(_)
Flatten(ss) ==
    IF ss = <<>> THEN <<>>
    ELSE IF Len(ss) = 1 THEN ss[1]
    ELSE Flatten(SubSeq(ss, 1, Len(ss) \div 2))
            \o Flatten(SubSeq(ss, Len(ss) \div 2 + 1, Len(ss)))

\* candidates.sort(key=(change_pct, volume_ratio), reverse=True)
CandidateGe(a, b) ==
    \/ a.change_pct > b.change_pct
    \/ a.change_pct = b.change_pct /\ FLe(b.volume_ratio, a.volume_ratio)

\* enumerate(candidates[:top_n], start=1)
Rank(sorted, topN) ==
    [i \in 1..Len(Take(sorted, topN)) |->
        ToDict([sorted[i] EXCEPT !.strength_rank = i])]

\* the pre-filtered rows as they come, cut to the cap
UniverseUnsorted(preFiltered) == Take(preFiltered, UniverseCap)

\* pre_filtered.sort(key=change, reverse=True); universe = pre_filtered[:120]:
\* a row's place in the stable descending order is one more than the number
\* of rows of a greater change plus the earlier rows of the same change
Universe(preFiltered) ==
    LET n      == Len(preFiltered)
        key    == [i \in 1..n |-> Num(preFiltered[i], SpotChangeKeys, 0).v] \o <<>>
        before == [i \in 1..n |->
                     Cardinality({j \in 1..n :
                                    key[j] > key[i] \/ (key[j] = key[i] /\ j < i)})]
                  \o <<>>
        sorted == [p \in 1..n |-> preFiltered[CHOOSE i \in 1..n : before[i] = p - 1]]
    IN  Take(sorted, UniverseCap)

\* the scan with the coarse pre-filter keeping the rows whose change is
\* above the threshold; sectors = <<>> stands for None and for the empty list
ScanStrongStocksAt(w, sectors, topN, debug, threshold) ==
    LET Dbg(reason, log) ==
            [module |-> "scan_strong_stocks", sectors_filter |-> sectors,
             fallback_reason |-> reason, api_calls |-> log]
        spotCall == <<Call("stock_zh_a_spot_em", -1, w.spot)>>
        Fallback(reason, log) ==
            [ret |-> Returned(FallbackScanStrongStocks(sectors, topN, debug,
                                                       Dbg(reason, log))),
             calls |-> log, live |-> FALSE]
        Passing(passed) == [i \in 1..Len(passed) |-> passed[i].cand]
        Live(rows, allow, preFiltered, universe, deep, ranked) ==
            [ret |-> Returned(ItemsWithDebug(ranked, debug,
                        [module |-> "scan_strong_stocks",
                         sectors_filter |-> sectors,
                         fallback_reason |-> "",
                         api_calls |-> spotCall \o allow.log
                                        \o Flatten([i \in 1..Len(deep) |->
                                                        deep[i].log]),
                         derived |-> [spot_rows |-> Len(rows),
                                      pre_filtered |-> Len(preFiltered),
                                      universe |-> Len(universe),
                                      candidates |-> Len(ranked)]])),
             calls |-> spotCall \o allow.calls
                        \o Flatten([i \in 1..Len(deep) |-> deep[i].calls]),
             live |-> TRUE]
        Filtered(rows, allow, preFiltered, universe, deep) ==
            Live(rows, allow, preFiltered, universe, deep,
                 Rank(SortDesc(CandidateGe,
                               Passing(SelectSeq(deep, LAMBDA d : d.pass))),
                      topN))
        Capped(rows, allow, preFiltered, universe) ==
            Filtered(rows, allow, preFiltered, universe,
                     [i \in 1..Len(universe) |->
                         DeepFilter(w, universe[i], allow.codes # {}, allow.codes)]
                     \o <<>>)
        PreFiltered(rows, allow, preFiltered) ==
            Capped(rows, allow, preFiltered, Universe(preFiltered))
        Resolved(rows, allow) ==
            PreFiltered(rows, allow,
                SelectSeq(rows, LAMBDA r :
                    /\ Gt(Num(r, SpotChangeKeys, 0), threshold)
                    /\ (allow.codes = {} \/ Str(r, CodeKeys, <<>>) \in allow.codes)))
    IN  IF ~w.runtime THEN Fallback("akshare_or_pandas_missing", <<>>)
        ELSE IF ~w.spot.ok THEN Fallback("spot_api_failed", spotCall)
        ELSE IF ToRecords(w.spot) = <<>> THEN Fallback("spot_rows_empty", spotCall)
        ELSE Resolved(ToRecords(w.spot),
                      IF sectors # <<>> THEN ResolveAllowed(w, sectors)
                      ELSE [codes |-> {}, calls |-> <<>>, log |-> <<>>])

\* scan_strong_stocks(sectors, top_n, debug) in world w; debug is the
\* resolved flag
ScanStrongStocks(w, sectors, topN, debug) ==
    ScanStrongStocksAt(w, sectors, topN, debug, PreFilterChange)

-----------------------------------------------------------------------------
(* Worlds of the scanner *)

\* daily history rows from closes, opens and volumes (prices in hundredths)
History(closes, opens, volumes) ==
    Frame([i \in 1..Len(closes) |->
            [shoupan |-> NumV(closes[i]), kaipan |-> NumV(opens[i]),
             chengjiaoliang |-> NumV(volumes[i])]])

Rising == <<1000, 1000, 1000, 1010, 1020, 1030>>

Flat == <<1000, 1000, 1000, 1010, 1020, 1020>>

\* adjusted closes below zero: they rise while the relative change falls
Sunk == <<-300, -300, -300, -300, -200, -100>>

SunkOpens == <<-300, -300, -300, -300, -200, 0>>

VolumesTo(last) == <<100, 100, 100, 100, 100, last>>

\* one instrument: today's change, the volume-ratio field, its sector and
\* what the history endpoint answers for it
Profile(change, field, sector, hist) ==
    [change |-> change, field |-> field, sector |-> sector, hist |-> hist]

Good == Profile(810, NumV(240), "Chips", History(Rising, Rising, VolumesTo(240)))

\* the profiles an odd-numbered listing slot is drawn from
ProfilesOdd ==
    {Good,
     Profile(990, NumV(300), "Chips",
             History(Tail(Rising), Tail(Rising), <<100, 100, 100, 100, 151>>)),
     Profile(500, NumV(300), "Chips", History(Rising, Rising, VolumesTo(300))),
     Profile(880, NumV(300), "Chips", Fail),
     Profile(870, NumV(300), "Banks", History(Flat, Flat, VolumesTo(300))),
     Profile(850, NumV(300), "Banks", History(Sunk, SunkOpens, VolumesTo(300))),
     Profile(300, NumV(300), "Chips", History(Rising, Rising, VolumesTo(300)))}

\* the profiles an even-numbered listing slot is drawn from
ProfilesEven ==
    {Good,
     Profile(810, NumV(190), "Banks", History(Rising, Rising, VolumesTo(600))),
     Profile(700, NumV(150), "Banks", History(Rising, Rising, VolumesTo(300))),
     Profile(650, NaNV, "Banks", History(Rising, Rising, VolumesTo(200))),
     Profile(900, NumV(300), "Chips",
             History(Tail(Tail(Rising)), Tail(Tail(Rising)), <<100, 100, 100, 300>>)),
     Profile(860, NumV(300), "Chips", History(Rising, Rising, VolumesTo(150))),
     Profile(460, NumV(300), "Chips", History(Rising, Rising, VolumesTo(300)))}

MaxStocks == 2

StockCode(i) == <<"S">> \o NatChars(i)

StockCodes == {StockCode(i) : i \in 1..(MaxStocks + 1)}

SpotRow(i, p) ==
    [daima |-> StrV(StockCode(i)), mingcheng |-> StrV(<<"N">> \o NatChars(i)),
     zhangdiefu |-> NumV(p.change), liangbi |-> p.field,
     suochuhangye |-> StrV(<<p.sector>>)]

\* the profiles further slots are drawn from
ProfilesLate == {p \in ProfilesOdd : p.change \in {810, 990}}

ProfilesAt(i) ==
    IF i = 1 THEN ProfilesOdd ELSE IF i = 2 THEN ProfilesEven ELSE ProfilesLate

\* the listed instruments and the history of each
Listing ==
    UNION {{l \in [1..n -> ProfilesOdd \cup ProfilesEven] :
                \A i \in 1..n : l[i] \in ProfilesAt(i)} :
           n \in 1..MaxStocks}

SpotOf(listing) == Frame([i \in 1..Len(listing) |-> SpotRow(i, listing[i])])

HistOf(listing) ==
    [c \in StockCodes \cup {<<>>} |->
        IF \E i \in 1..Len(listing) : c = StockCode(i)
        THEN listing[CHOOSE i \in 1..Len(listing) : c = StockCode(i)].hist
        ELSE Fail]

ConsRows(codes) == Frame([i \in 1..Len(codes) |-> [daima |-> StrV(codes[i])]])

ScanSectorNames ==
    {<<"Chips">>, <<"Banks">>, <<"AI-Compute">>, <<"Coal">>, <<"Semiconductor">>,
     <<"Robotics">>}

\* constituent endpoints: which exist, and what they answer for each sector
ConsWorlds ==
    {[hasIndustryCons |-> TRUE, hasConceptCons |-> TRUE,
      industryCons |-> [s \in ScanSectorNames |->
            IF s = <<"Chips">> THEN ConsRows(<<StockCode(1)>>) ELSE Fail],
      conceptCons |-> [s \in ScanSectorNames |-> ConsRows(<<StockCode(2)>>)]],
     [hasIndustryCons |-> TRUE, hasConceptCons |-> FALSE,
      industryCons |-> [s \in ScanSectorNames |-> Frame(<<>>)],
      conceptCons |-> [s \in ScanSectorNames |-> Fail]],
     [hasIndustryCons |-> FALSE, hasConceptCons |-> TRUE,
      industryCons |-> [s \in ScanSectorNames |-> Fail],
      conceptCons |-> [s \in ScanSectorNames |->
            IF s = <<"Banks">> THEN ConsRows(<<StockCode(2), StockCode(3)>>)
            ELSE Frame(<<>>)]],
     [hasIndustryCons |-> FALSE, hasConceptCons |-> FALSE,
      industryCons |-> [s \in ScanSectorNames |-> Fail],
      conceptCons |-> [s \in ScanSectorNames |-> Fail]]}

ConsWith(ind, con) ==
    CHOOSE c \in ConsWorlds : c.hasIndustryCons = ind /\ c.hasConceptCons = con

NoCons == ConsWith(FALSE, FALSE)

ScanWorld(spot, hist, cons) ==
    [runtime |-> TRUE, spot |-> spot, hist |-> hist,
     hasIndustryCons |-> cons.hasIndustryCons, hasConceptCons |-> cons.hasConceptCons,
     industryCons |-> cons.industryCons, conceptCons |-> cons.conceptCons]

\* the sector list of a call with the constituent endpoints it meets
ScanCases ==
    {[sectors |-> <<>>, cons |-> NoCons],
     [sectors |-> <<<<"Chips">>>>, cons |-> ConsWith(TRUE, TRUE)],
     [sectors |-> <<<<"Chips">>>>, cons |-> ConsWith(TRUE, FALSE)],
     [sectors |-> <<<<"Semiconductor">>, <<"Banks">>>>, cons |-> ConsWith(FALSE, TRUE)],
     [sectors |-> <<<<"Semiconductor">>, <<"Banks">>>>, cons |-> ConsWith(TRUE, TRUE)],
     [sectors |-> <<<<"Robotics">>>>, cons |-> NoCons]}

\* a crowd of instruments listed before the others, as many as the universe
\* holds, all with one change and a history that fails
CrowdCode(i) == <<"F">> \o NatChars(i)

CrowdRow(i, change) ==
    [daima |-> StrV(CrowdCode(i)), mingcheng |-> StrV(<<"C">> \o NatChars(i)),
     zhangdiefu |-> NumV(change), liangbi |-> NumV(300),
     suochuhangye |-> StrV(<<"Coal">>)]

\* the change of a crowd: between the two thresholds, at the upper one, and
\* above both
CrowdChanges == {480, 500, 600}

CrowdedSpot(change, listing) ==
    Frame([i \in 1..UniverseCap |-> CrowdRow(i, change)]
          \o [i \in 1..Len(listing) |-> SpotRow(i, listing[i])])

CrowdedHist(listing) ==
    [c \in StockCodes \cup {<<>>} \cup {CrowdCode(i) : i \in 1..UniverseCap} |->
        IF c \in StockCodes \cup {<<>>} THEN HistOf(listing)[c] ELSE Fail]

\* two instruments behind the crowd: both strong, or the second between the
\* thresholds
CrowdedListing ==
    {l \in Listing : Len(l) = 2 /\ l[1] = Good /\ l[2].change \in {810, 460}}

CrowdedWorlds ==
    {ScanWorld(CrowdedSpot(c, l), CrowdedHist(l), NoCons) :
        c \in CrowdChanges, l \in CrowdedListing}

ScanWorldsFor(cons) ==
    {NoRuntime}
    \cup {ScanWorld(s, HistOf(<<>>), cons) : s \in {Fail, Frame(<<>>)}}
    \cup {ScanWorld(SpotOf(l), HistOf(l), cons) : l \in Listing}
    \cup (IF cons = NoCons THEN CrowdedWorlds ELSE {})

ScanDebugCases == {dc \in DebugCases : dc.env = <<>>}

CallScan ==
    /\ op = "idle"
    /\ \E sc \in ScanCases, n \in 0..(MaxStocks + 1), dc \in ScanDebugCases :
        \E w \in ScanWorldsFor(sc.cons) :
        LET Done(r) ==
                /\ op' = "scan_strong_stocks"
                /\ args' = [debug |-> dc.debug, env |-> dc.env, top_n |-> n,
                            sectors |-> sc.sectors]
                /\ up' = w
                /\ ret' = r.ret
                /\ calls' = r.calls
                /\ invoked' = <<>>
        IN  Done(ScanStrongStocks(w, sc.sectors, n, ResolveDebug(dc.debug, dc.env)))

-----------------------------------------------------------------------------
(* Capital Flow Analyzer: money_flow.py analyze_capital_flow *)

NorthFlowKeys == <<"value", "jingliuru", "dangrijingliuru", "jingmaie">>

NorthHistKeys == <<"dangrichengjiaojingmaie", "dangrijingliuru", "jingmaie", "jingliuru">>

NorthHistSymbols == <<"beixiangzijin", "hugutong", "shengutong">>

MainFlowKeys ==
    <<"zhulijingliuru_jinge", "zhulijinge", "zhulijingliuru", "zhulijingliurujinge">>

RankFlowKeys == <<"jinrizhulijingliuru_jinge", "zhulijingliuru_jinge", "zhulijinge">>

RankIndicators == <<"jinri", "5ri", "10ri">>

SeriesWindow == 20

TierStrong == 300000000

TierFair == 150000000

\* a debug_info["api_calls"] entry of this module
Logged(api, arg, resp) ==
    [api |-> api, arg |-> arg, ok |-> resp.ok, rows |-> Len(ToRecords(resp))]

\* values[-n:]
LastN(s, n) == SubSeq(s, Max2(1, Len(s) - n + 1), Len(s))

\* _fallback_capital_flow(symbol, debug, debug_info); symbol = <<>> stands
\* for None and for the empty string
FallbackCapitalFlow(symbol, debug, info) ==
    WithDebug([symbol |-> IF symbol = <<>> THEN <<"market">> ELSE symbol,
               main_flow |-> 180000000,
               northbound_net |-> 530000000,
               northbound_inflow_days |-> 3,
               flow_trend |-> <<"3", "-day-inflow">>,
               strength_rank |-> 12,
               data_source |-> "fallback"],
              debug, info)

\* the positive points of a series, wherever they stand
CountInflowPoints(values) ==
    Cardinality({i \in 1..Len(values) : values[i] > 0})

\* _count_consecutive_inflow(values)
RECURSIVE CountConsecutiveInflow(_)
CountConsecutiveInflow(values) ==
    IF values = <<>> \/ values[Len(values)] <= 0 THEN 0
    ELSE 1 + CountConsecutiveInflow(SubSeq(values, 1, Len(values) - 1))

\* the non-zero values of a frame's rows under the given field names
NonZeroValues(resp, keys) ==
    SelectSeq([i \in 1..Len(ToRecords(resp)) |-> NumUnit(ToRecords(resp)[i], keys, 0)],
              LAMBDA x : x # 0)

\* the statistics endpoint asked for its first symbol only
NorthFromHistOnce(w, i) ==
    LET Tried(resp, call, vals) ==
            IF resp.ok /\ vals # <<>>
            THEN [vals |-> LastN(vals, SeriesWindow), calls |-> <<call>>]
            ELSE [vals |-> <<>>, calls |-> <<call>>]
    IN  Tried(w.northHist[i],
              Logged("stock_hsgt_hist_em", NorthHistSymbols[i], w.northHist[i]),
              NonZeroValues(w.northHist[i], NorthHistKeys))

\* the statistics endpoint, one symbol after the other
RECURSIVE NorthFromHist(_, _)
NorthFromHist(w, i) ==
    LET Tried(resp, call, vals) ==
            IF resp.ok /\ vals # <<>>
            THEN [vals |-> LastN(vals, SeriesWindow), calls |-> <<call>>]
            ELSE [NorthFromHist(w, i + 1) EXCEPT !.calls = <<call>> \o @]
    IN  IF i > Len(NorthHistSymbols) THEN [vals |-> <<>>, calls |-> <<>>]
        ELSE Tried(w.northHist[i],
                   Logged("stock_hsgt_hist_em", NorthHistSymbols[i], w.northHist[i]),
                   NonZeroValues(w.northHist[i], NorthHistKeys))

\* _load_northbound_series(debug_info) with the runtime present
LoadNorthboundSeries(w) ==
    LET Tried(call, vals) ==
            IF w.northFlow.ok /\ vals # <<>>
            THEN [vals |-> LastN(vals, SeriesWindow), calls |-> <<call>>]
            ELSE IF w.hasNorthHist
            THEN [NorthFromHist(w, 1) EXCEPT !.calls = <<call>> \o @]
            ELSE [vals |-> <<>>, calls |-> <<call>>]
    IN  Tried(Logged("stock_hsgt_north_net_flow_in_em", "beishang", w.northFlow),
              NonZeroValues(w.northFlow, NorthFlowKeys))

\* str(row.get("gupiaodaima", row.get("daima", ""))).strip()
RankCode(row) ==
    IF HasKey(row, "gupiaodaima") THEN
        IF row.gupiaodaima.t = "none" THEN <<"N", "o", "n", "e">>
        ELSE StrOf(row.gupiaodaima)
    ELSE IF HasKey(row, "daima") THEN
        IF row.daima.t = "none" THEN <<"N", "o", "n", "e">> ELSE StrOf(row.daima)
    ELSE <<>>

\* the ranking table asked for one indicator only
MainFlowFromRankOnce(w, symbol, i) ==
    LET Tried(resp, rows, call, hits) ==
            IF resp.ok /\ hits # {}
            THEN [flow |-> NumUnit(rows[CHOOSE j \in hits : \A k \in hits : j <= k],
                                   RankFlowKeys, 0),
                  calls |-> <<call>>]
            ELSE [flow |-> 0, calls |-> <<call>>]
        Fetched(resp, rows) ==
            Tried(resp, rows,
                  Logged("stock_individual_fund_flow_rank", RankIndicators[i], resp),
                  {j \in 1..Len(rows) : RankCode(rows[j]) = symbol})
    IN  Fetched(w.rank[i], ToRecords(w.rank[i]))

\* the ranking table, one indicator after the other: the first row of the
\* symbol decides
RECURSIVE MainFlowFromRank(_, _, _)
MainFlowFromRank(w, symbol, i) ==
    LET Tried(resp, rows, call, hits) ==
            IF resp.ok /\ hits # {}
            THEN [flow |-> NumUnit(rows[CHOOSE j \in hits : \A k \in hits : j <= k],
                                   RankFlowKeys, 0),
                  calls |-> <<call>>]
            ELSE [MainFlowFromRank(w, symbol, i + 1) EXCEPT !.calls = <<call>> \o @]
        Fetched(resp, rows) ==
            Tried(resp, rows,
                  Logged("stock_individual_fund_flow_rank", RankIndicators[i], resp),
                  {j \in 1..Len(rows) : RankCode(rows[j]) = symbol})
    IN  IF i > Len(RankIndicators) THEN [flow |-> 0, calls |-> <<>>]
        ELSE Fetched(w.rank[i], ToRecords(w.rank[i]))

\* _load_symbol_main_flow(symbol, debug_info) with the runtime present
LoadSymbolMainFlow(w, symbol) ==
    LET Tried(rows, call) ==
            IF w.fund.ok /\ rows # <<>>
            THEN [flow |-> NumUnit(rows[Len(rows)], MainFlowKeys, 0),
                  calls |-> <<call>>]
            ELSE IF w.hasRank
            THEN [MainFlowFromRank(w, symbol, 1) EXCEPT !.calls = <<call>> \o @]
            ELSE [flow |-> 0, calls |-> <<call>>]
    IN  Tried(ToRecords(w.fund),
              Logged("stock_individual_fund_flow", symbol, w.fund))

\* int(net * 0.55): eleven twentieths, cut towards zero
MarketMainFlow(net) ==
    LET a == Abs(net)
        q == 11 * (a \div 20) + (11 * (a % 20)) \div 20
    IN  IF net < 0 THEN -q ELSE q

\* the tier of a main flow; negative says whether the unrounded flow is
\* below zero
StrengthRank(mainFlow, negative) ==
    IF mainFlow >= TierStrong THEN 5
    ELSE IF mainFlow >= TierFair THEN 12
    ELSE IF ~negative THEN 30
    ELSE 70

\* analyze_capital_flow(symbol, debug) in world w; debug is the resolved flag
AnalyzeCapitalFlow(w, symbol, debug) ==
    LET Dbg(reason, log) ==
            [module |-> "analyze_capital_flow",
             symbol |-> IF symbol = <<>> THEN <<"market">> ELSE symbol,
             fallback_reason |-> reason, api_calls |-> log]
        Fallback(reason, log) ==
            [ret |-> Returned(FallbackCapitalFlow(symbol, debug, Dbg(reason, log))),
             calls |-> log]
        Live(north, net, days, main) ==
            [ret |-> Returned(WithDebug(
                        [symbol |-> IF symbol = <<>> THEN <<"market">> ELSE symbol,
                         main_flow |-> main.flow,
                         northbound_net |-> net,
                         northbound_inflow_days |-> days,
                         flow_trend |-> IF days > 0
                                        THEN NatChars(days) \o <<"-day-inflow">>
                                        ELSE <<"outflow">>,
                         strength_rank |->
                             StrengthRank(main.flow,
                                          IF symbol # <<>> THEN main.flow < 0
                                          ELSE net < 0),
                         data_source |-> "akshare-live"],
                        debug,
                        [module |-> "analyze_capital_flow",
                         symbol |-> IF symbol = <<>> THEN <<"market">> ELSE symbol,
                         fallback_reason |-> "",
                         api_calls |-> north.calls \o main.calls,
                         derived |-> [north_series_points |-> Len(north.vals)]])),
             calls |-> north.calls \o main.calls]
        Measured(north, net, days) ==
            Live(north, net, days,
                 IF symbol # <<>> THEN LoadSymbolMainFlow(w, symbol)
                 ELSE [flow |-> MarketMainFlow(net), calls |-> <<>>])
        Loaded(north) ==
            IF north.vals = <<>>
            THEN Fallback("northbound_series_empty", north.calls)
            ELSE Measured(north, north.vals[Len(north.vals)],
                          CountConsecutiveInflow(north.vals))
    IN  IF ~w.runtime THEN Fallback("akshare_or_pandas_missing", <<>>)
        ELSE Loaded(LoadNorthboundSeries(w))

-----------------------------------------------------------------------------
(* Worlds of the capital flow analyzer *)

FlowRows(key, cells) == Frame([i \in 1..Len(cells) |-> [k \in {key} |-> cells[i]]])

Dashes == StrV(<<"-", "-">>)

\* northbound series: two closing inflow days, a closing outflow, nothing
\* but placeholders, one day more than the window keeps (the oldest day an
\* outflow), a closing inflow of 10 yi, and a closing outflow of one unit
NorthSeries ==
    {<<NumV(-50000000), Dashes, NumV(30000000), StrV(<<"6", "YI">>)>>,
     <<NumV(100000000), NumV(-200000000)>>,
     <<Dashes, NumV(0), NoneV>>,
     <<NumV(-7)>> \o Repeat(NumV(20000000), SeriesWindow),
     <<StrV(<<"1", "0", "YI">>)>>,
     <<NumV(30000000), NumV(-1)>>}

NorthFlowChoices ==
    {Fail, Frame(<<>>)} \cup {FlowRows("value", s) : s \in NorthSeries}

NorthHistChoices ==
    {<<Fail, Fail, Fail>>,
     <<Frame(<<>>), Fail, FlowRows("jingmaie", <<NumV(40000000), NumV(60000000)>>)>>,
     <<FlowRows("dangrichengjiaojingmaie", <<StrV(<<"-", "2", "YI">>)>>), Fail, Fail>>}

FundChoices ==
    {Fail, Frame(<<>>)}
    \cup {FlowRows("zhulijinge", <<NumV(1), c>>) :
            c \in {NumV(320000000), NumV(150000000), NumV(-10000000), Dashes}}

RankRows(code, cell) ==
    Frame(<<[daima |-> StrV(<<"S", "9">>), zhulijinge |-> NumV(5)],
            [daima |-> StrV(code), zhulijinge |-> cell],
            [daima |-> StrV(code), zhulijinge |-> NumV(-1)]>>)

Symbols == {<<>>, <<"S", "1">>}

RankChoices ==
    {<<Fail, Fail, Fail>>,
     <<Fail, RankRows(<<"S", "9">>, NumV(8)), RankRows(<<" ", "S", "1">>, NumV(200000000))>>,
     <<RankRows(<<"S", "1">>, NumV(0)), Fail, Fail>>,
     <<Fail, Frame(<<>>), RankRows(<<"S", "9">>, NumV(8))>>}

\* the symbol-specific endpoints matter only when a symbol is given
CapitalWorldsFor(symbol) ==
    {NoRuntime} \cup
    [runtime : {TRUE}, northFlow : NorthFlowChoices, hasNorthHist : BOOLEAN,
     northHist : NorthHistChoices,
     fund : IF symbol = <<>> THEN {Fail} ELSE FundChoices,
     hasRank : IF symbol = <<>> THEN {FALSE} ELSE BOOLEAN,
     rank : IF symbol = <<>> THEN {<<Fail, Fail, Fail>>} ELSE RankChoices]

CallCapital ==
    /\ op = "idle"
    /\ \E symbol \in Symbols, dc \in ScanDebugCases :
        \E w \in CapitalWorldsFor(symbol) :
        LET Done(r) ==
                /\ op' = "analyze_capital_flow"
                /\ args' = [debug |-> dc.debug, env |-> dc.env, symbol |-> symbol]
                /\ up' = w
                /\ ret' = r.ret
                /\ calls' = r.calls
                /\ invoked' = <<>>
        IN  Done(AnalyzeCapitalFlow(w, symbol, ResolveDebug(dc.debug, dc.env)))

-----------------------------------------------------------------------------
(* Signal Fusion Engine: fusion_engine.py short_term_signal_engine *)

\* scores are exact fractions of a point; rounded scores are in hundredths
Points(hundredths) == Frac(hundredths, Centi)

\* _calc_sector_score(top_sectors)
CalcSectorScore(topSectors) ==
    IF topSectors = <<>> THEN FInt(0)
    ELSE LET top3 == Take(topSectors, 3)
         IN  Frac(SumOver(LAMBDA i : top3[i].strength, 1, Len(top3)), Centi * Len(top3))

\* mutant of CalcStockVolumeScore: the sum is not clamped
CalcStockVolumeScoreRaw(stocks) ==
    IF stocks = <<>> THEN FInt(0)
    ELSE FAdd(FMul(Points(stocks[1].volume_ratio), FInt(20)),
              FMul(Points(stocks[1].change_pct), FInt(4)))

\* _calc_stock_volume_score(stocks): ratio / 3 * 60 + change / 10 * 40
CalcStockVolumeScore(stocks) ==
    IF stocks = <<>> THEN FInt(0)
    ELSE Clamp(FAdd(FMul(Points(stocks[1].volume_ratio), FInt(20)),
                    FMul(Points(stocks[1].change_pct), FInt(4))), 0, 100)

\* clamp(main_flow / 300_000_000 * 70, 0, 70), the bounds tested first so
\* that the product stays small
MainFlowTerm(mainFlow) ==
    IF mainFlow >= TierStrong THEN FInt(70)
    ELSE IF mainFlow <= 0 THEN FInt(0)
    ELSE Clamp(Frac(7 * mainFlow, TierStrong \div 10), 0, 70)

\* _calc_capital_score(capital)
CalcCapitalScore(capital) ==
    Clamp(FAdd(MainFlowTerm(capital.main_flow),
               Clamp(Frac(capital.northbound_inflow_days * 30, 5), 0, 30)), 0, 100)

\* _calc_technical_score(stocks)
CalcTechnicalScore(stocks) ==
    IF stocks = <<>> THEN FInt(0)
    ELSE Clamp(FAdd(FInt(55), FMul(Points(stocks[1].volume_ratio), FInt(10))), 0, 100)

\* the weighted sum of the five factors, clamped and rounded: hundredths
CompositeScore(sentiment, sector, stock, capital, technical) ==
    Round2(Clamp(FAdd(FAdd(FAdd(FAdd(FMul(sentiment, Frac(25, 100)),
                                     FMul(sector, Frac(25, 100))),
                                FMul(stock, Frac(20, 100))),
                           FMul(capital, Frac(20, 100))),
                      FMul(technical, Frac(10, 100))), 0, 100))

BuyScore == 7500

WatchScore == 6000

\* mutant of Confidence: the cap is returned whatever the score
ConfidenceCapped(score, factor, cap) == FInt(cap)

\* clamp(score / 100.0 * factor, 0.0, cap) in percent, for a score in
\* hundredths and a factor and a cap in percent
Confidence(score, factor, cap) ==
    Clamp(FMul(Frac(score, Centi * Centi), FInt(factor)), 0, cap)

\* mutant of Decide: the market filter is not consulted
DecideUnfiltered(score, marketFilter) ==
    IF score >= BuyScore THEN
        [signal |-> "SHORT_BUY", confidence |-> Confidence(score, 90, 95),
         holding_days |-> "1-3"]
    ELSE IF score >= WatchScore THEN
        [signal |-> "WATCHLIST", confidence |-> Confidence(score, 75, 85),
         holding_days |-> "1-2"]
    ELSE
        [signal |-> "NO_TRADE", confidence |-> Confidence(score, 60, 70),
         holding_days |-> "0"]

\* the decision of short_term_signal_engine from the rounded score (in
\* hundredths) and the risk verdict; the confidence is not yet rounded
Decide(score, marketFilter) ==
    IF score >= BuyScore /\ marketFilter THEN
        [signal |-> "SHORT_BUY", confidence |-> Confidence(score, 90, 95),
         holding_days |-> "1-3"]
    ELSE IF score >= WatchScore /\ marketFilter THEN
        [signal |-> "WATCHLIST", confidence |-> Confidence(score, 75, 85),
         holding_days |-> "1-2"]
    ELSE
        [signal |-> "NO_TRADE", confidence |-> Confidence(score, 60, 70),
         holding_days |-> "0"]

\* the scores whose confidence lies exactly between two hundredths and whose
\* binary floating-point product lies above that midpoint
TiesAbove ==
    [SHORT_BUY |-> {7500, 8500},
     WATCHLIST |-> {},
     NO_TRADE |-> {2250, 2750, 3250, 4250, 5250, 6250, 6750, 8750, 9250}]

\* round(confidence, 2) in percent: the midpoints fall as the floating-point
\* product does
RoundConfidence(signal, score, confidence) ==
    LET q == confidence.n \div confidence.d
        r == confidence.n % confidence.d
    IN  IF 2 * r > confidence.d \/ (2 * r = confidence.d /\ score \in TiesAbove[signal])
        THEN q + 1 ELSE q

\* the fields of the payload that the decision fills
Decision(score, marketFilter) ==
    LET Rounded(d) ==
            [signal |-> d.signal, holding_days |-> d.holding_days,
             confidence |-> RoundConfidence(d.signal, score, d.confidence)]
    IN  Rounded(Decide(score, marketFilter))

\* tools/risk_control.py short_term_risk_control(score): only the market
\* filter of the verdict is consulted, and the world decides it
ShortTermRiskControl(w, score) == [market_filter |-> w.marketFilter]

\* the items of a result without their debug_info
StripDebug(payload) ==
    [k \in DOMAIN payload \ {"debug_info"} |-> payload[k]]

\* the last candidate's code, or no symbol
TargetSymbolOfLast(stocks) ==
    IF stocks # <<>> THEN stocks[Len(stocks)].code ELSE <<>>

\* stocks[0]["code"] if stocks else None
TargetSymbol(stocks) ==
    IF stocks # <<>> THEN stocks[1].code ELSE <<>>

\* a call of the engine to one of its scorers, with the argument it passes
\* beside the debug flag
Invocation(fn, arg) == [fn |-> fn, arg |-> arg]

\* short_term_signal_engine(debug) in world w; debug is the resolved flag
ShortTermSignalEngine(w, debug) ==
    LET Upstream(part) == IF w.runtime THEN w[part] ELSE NoRuntime
        Payload(sentiment, topSectors, stocks, capital, risk, factors, score,
                decision) ==
            [score |-> score,
             signal |-> decision.signal,
             holding_days |-> decision.holding_days,
             confidence |-> decision.confidence,
             risk_control |-> risk,
             market_sentiment |-> sentiment,
             top_sectors |-> topSectors,
             candidates |-> stocks,
             capital_flow |-> capital,
             factor_breakdown |->
                 [market_sentiment |-> Round2(factors.sentiment),
                  sector_strength |-> Round2(factors.sector),
                  stock_volume_strength |-> Round2(factors.stock),
                  capital_inflow |-> Round2(factors.capital),
                  technical_structure |-> Round2(factors.technical)]]
        Signalled(sentiment, topSectors, stocks, capital, risk, factors, score) ==
            Payload(sentiment, topSectors, stocks, capital, risk, factors, score,
                    Decision(score, risk.market_filter))
        Scored(sentiment, topSectors, stocks, capital, risk, factors) ==
            Signalled(sentiment, topSectors, stocks, capital, risk, factors,
                      CompositeScore(factors.sentiment, factors.sector,
                                     factors.stock, factors.capital,
                                     factors.technical))
        Fused(sentiment, topSectors, stocks, capital) ==
            Scored(sentiment, topSectors, stocks, capital,
                   ShortTermRiskControl(w, sentiment.market_sentiment_score),
                   [sentiment |-> Points(sentiment.market_sentiment_score),
                    sector    |-> CalcSectorScore(topSectors),
                    stock     |-> CalcStockVolumeScore(stocks),
                    capital   |-> CalcCapitalScore(capital),
                    technical |-> CalcTechnicalScore(stocks)])
        WithCapital(sent, sect, names, scan, target, cap) ==
            [ret |-> Returned(WithDebug(
                        Fused(sent.ret.value, sect.ret.value.top_sectors,
                              scan.ret.value, cap.ret.value),
                        debug,
                        [module |-> "short_term_signal_engine",
                         selected_symbol |-> target,
                         sources |->
                             [market_sentiment |-> sent.ret.value.data_source,
                              sector_rotation |-> sect.ret.value.data_source,
                              capital_flow |-> cap.ret.value.data_source]])),
             calls |-> sent.calls \o sect.calls \o scan.calls \o cap.calls,
             invoked |->
                 <<Invocation("get_market_sentiment", <<>>),
                   Invocation("get_sector_rotation", 5),
                   Invocation("scan_strong_stocks", names),
                   Invocation("analyze_capital_flow", target),
                   Invocation("short_term_risk_control",
                              sent.ret.value.market_sentiment_score)>>]
        WithTarget(sent, sect, names, scan, target) ==
            WithCapital(sent, sect, names, scan, target,
                        AnalyzeCapitalFlow(Upstream("cap"), target, debug))
        WithScan(sent, sect, names, scan) ==
            WithTarget(sent, sect, names, scan, TargetSymbol(scan.ret.value))
        WithNames(sent, sect, names) ==
            WithScan(sent, sect, names,
                     ScanStrongStocks(Upstream("scan"), names, 5, debug))
        WithSectors(sent, sect) ==
            IF sect.ret.raised
            THEN [ret |-> Raised, calls |-> sent.calls \o sect.calls,
                  invoked |-> <<Invocation("get_market_sentiment", <<>>),
                                Invocation("get_sector_rotation", 5)>>]
            ELSE WithNames(sent, sect,
                           [i \in 1..Len(sect.ret.value.top_sectors) |->
                               sect.ret.value.top_sectors[i].name])
    IN  WithSectors(GetMarketSentiment(Upstream("sent"), debug),
                    GetSectorRotation(Upstream("sect"), 5, debug))

-----------------------------------------------------------------------------
(* Worlds of the fusion engine: a few answers of each upstream source *)

\* the pool answers for today only
NewestDay(rows) == [i \in 1..ProbeDays |-> IF i = 1 THEN Frame(rows) ELSE Frame(<<>>)]

FusionSentiment ==
    [runtime : {TRUE}, today : {0}, zt : {NewestDay(ZtMany), NewestDay(ZtFew), NewestDay(<<>>)},
     dt : {Frame(<<>>)}, hasZb : {TRUE}, zb : {Frame(<<>>)}, spot : {Fail}]

FusionSectors ==
    [runtime : {TRUE},
     industry : {Fail, Frame(SectorsPlain), Frame(SectorsApprox), Frame(SectorsNaN)},
     hasConcept : {FALSE}, concept : {Fail}]

\* no candidate, one candidate, and two candidates of which the second
\* listed ranks first
FusionListing ==
    {l \in Listing :
        \/ Len(l) = 1 /\ l[1].change \in {810, 500}
        \/ Len(l) = 2 /\ l[1] = Good /\ l[2].change = 810 /\ l[2] # Good}

FusionScan ==
    {ScanWorld(Fail, HistOf(<<>>), NoCons)}
    \cup {ScanWorld(SpotOf(l), HistOf(l), c) :
            l \in FusionListing, c \in {NoCons, ConsWith(TRUE, TRUE)}}

FusionCapital ==
    [runtime : {TRUE},
     northFlow : {Fail, FlowRows("value", <<NumV(30000000), StrV(<<"6", "YI">>)>>)},
     hasNorthHist : {FALSE}, northHist : {<<Fail, Fail, Fail>>},
     fund : {Fail, FlowRows("zhulijinge", <<NumV(320000000)>>)},
     hasRank : {FALSE}, rank : {<<Fail, Fail, Fail>>}]

FusionWorlds ==
    {[runtime |-> FALSE, marketFilter |-> b] : b \in BOOLEAN} \cup
    [runtime : {TRUE}, sent : FusionSentiment, sect : FusionSectors,
     scan : FusionScan, cap : FusionCapital, marketFilter : BOOLEAN]

CallFusion ==
    /\ op = "idle"
    /\ \E w \in FusionWorlds, dc \in ScanDebugCases :
        LET Done(r) ==
                /\ op' = "short_term_signal_engine"
                /\ args' = dc
                /\ up' = w
                /\ ret' = r.ret
                /\ calls' = r.calls
                /\ invoked' = r.invoked
        IN  Done(ShortTermSignalEngine(w, ResolveDebug(dc.debug, dc.env)))

-----------------------------------------------------------------------------
Next ==
    \/ CallSentiment
    \/ CallSectorRotation
    \/ CallScan
    \/ CallCapital
    \/ CallFusion
    \/ Finish

Spec == Init /\ [][Next]_vars

-----------------------------------------------------------------------------
(* The decision stage over every rounded score, beside the engine's own runs *)

MaxScore == 100 * Centi

DecideSignal ==
    /\ op = "idle"
    /\ \E score \in 0..MaxScore, mf \in BOOLEAN :
        /\ op' = "decide"
        /\ args' = [score |-> score, market_filter |-> mf]
        /\ ret' = Returned(Decision(score, mf))
        /\ UNCHANGED <<up, calls, invoked>>

NextDecide == DecideSignal \/ CallFusion \/ Finish

SpecDecide == Init /\ [][NextDecide]_vars

-----------------------------------------------------------------------------
(* Claims about the decision *)

\* a decision has been taken: by the stage alone or within a completed run
Decided ==
    \/ op = "decide"
    \/ op = "short_term_signal_engine" /\ ~ret.raised

DecidedScore == IF op = "decide" THEN args.score ELSE ret.value.score

DecidedFilter ==
    IF op = "decide" THEN args.market_filter ELSE ret.value.risk_control.market_filter

Signals == {"SHORT_BUY", "WATCHLIST", "NO_TRADE"}

\* C1: the signal follows the first matching rule: SHORT_BUY with holding
\* "1-3" iff score >= 75 and the market filter is true, WATCHLIST with holding
\* "1-2" iff 60 <= score < 75 and the market filter is true, NO_TRADE with
\* holding "0" otherwise; so a false filter or a score below 60 always gives
\* NO_TRADE
C1_FirstMatchWins ==
    Decided =>
        LET s  == DecidedScore
            mf == DecidedFilter
            v  == ret.value
        IN  /\ v.signal \in Signals
            /\ v.signal = "SHORT_BUY" <=> (s >= 75 * Centi /\ mf)
            /\ v.signal = "WATCHLIST" <=> (s >= 60 * Centi /\ s < 75 * Centi /\ mf)
            /\ v.signal = "NO_TRADE" <=> (~mf \/ s < 60 * Centi)
            /\ v.holding_days = CASE v.signal = "SHORT_BUY" -> "1-3"
                                  [] v.signal = "WATCHLIST" -> "1-2"
                                  [] OTHER -> "0"

\* a score of exactly 75 vetoed by the risk gate
C1_Witness ==
    /\ Decided
    /\ DecidedScore = 75 * Centi
    /\ ~DecidedFilter
    /\ ret.value.signal = "NO_TRADE"
    /\ ret.value.holding_days = "0"

MaxGap == 3

\* the scores above the decided one, within MaxGap hundredths, that fall in
\* the same tier
SameTierAbove ==
    {t \in (DecidedScore + 1)..Min2(MaxScore, DecidedScore + MaxGap) :
        Decide(t, DecidedFilter).signal = ret.value.signal}

\* C3 as stated: the returned confidence lies in [0, 0.95] and is strictly
\* increasing in the score within one tier
C3_StrictlyIncreasing ==
    Decided =>
        /\ ret.value.confidence \in 0..95
        /\ \A t \in SameTierAbove :
              ret.value.confidence < Decision(t, DecidedFilter).confidence

\* C3 amended: the returned confidence lies in [0, 0.95] and never decreases
\* as the score grows within one tier; it is the confidence before its
\* rounding to two decimals that is strictly increasing
C3_NonDecreasing ==
    Decided =>
        /\ ret.value.confidence \in 0..95
        /\ \A t \in SameTierAbove :
              /\ ret.value.confidence <= Decision(t, DecidedFilter).confidence
              /\ FLt(Decide(DecidedScore, DecidedFilter).confidence,
                     Decide(t, DecidedFilter).confidence)

\* scores 80.00 and 80.01 are both SHORT_BUY with confidence 0.72
C3_Witness ==
    /\ op = "decide"
    /\ args.score = 80 * Centi
    /\ args.market_filter
    /\ ret.value.signal = "SHORT_BUY"
    /\ ret.value.confidence = 72
    /\ Decision(args.score + 1, TRUE) = ret.value

-----------------------------------------------------------------------------
(* Claims about the public operations *)

PublicOps ==
    {"get_market_sentiment", "get_sector_rotation", "scan_strong_stocks",
     "analyze_capital_flow", "short_term_signal_engine"}

\* a public operation has returned a payload
Completed(name) == op = name /\ ~ret.raised

InRange(x) == FLe(FInt(0), x) /\ FLe(x, FInt(100))

RoundedInRange(h) == h \in 0..(100 * Centi)

C4_NoErrorEscapes == op \in PublicOps => ~ret.raised

SourceTags == {"akshare-live", "fallback"}

\* C5 as stated: every public operation's result carries a source tag that
\* tells a live result from the static fallback, scan_strong_stocks and the
\* fused payload included
C5_SourceTagPresent ==
    /\ \A name \in {"get_market_sentiment", "get_sector_rotation", "analyze_capital_flow"} :
          Completed(name) => ret.value.data_source \in SourceTags
    /\ Completed("scan_strong_stocks") =>
          \A i \in 1..Len(ret.value) : "data_source" \in DOMAIN ret.value[i]
    /\ Completed("short_term_signal_engine") => "data_source" \in DOMAIN ret.value

\* C6 as stated: scan_strong_stocks returns k <= top_n candidates whose
\* strength_rank values are 1..k in list order, live or fallback, with or
\* without a sector allow-list
C6_DenseRanks ==
    Completed("scan_strong_stocks") =>
        /\ Len(ret.value) <= args.top_n
        /\ \A i \in 1..Len(ret.value) : ret.value[i].strength_rank = i

\* the limit-up pool is empty or fails on every probed date
LimitUpPoolSilent(w) ==
    \A i \in 1..Len(RecentTradeDates(w.today)) :
        LET resp == w.zt[RecentTradeDates(w.today)[i] + 1]
        IN  ~resp.ok \/ ToRecords(resp) = <<>>

\* C7: with the runtime present get_market_sentiment answers with the static
\* fallback (42 limit-ups, 9 limit-downs, height 3, break rate 0.21 and the
\* score the formula gives for them) iff the limit-up pool is empty or fails
\* on every probed date; a failing or empty limit-down pool, broken-board
\* pool or spot snapshot leaves the result live with that term at its default
C7_FallbackIffPoolSilent ==
    (Completed("get_market_sentiment") /\ up.runtime) =>
        LET v == ret.value IN
        /\ v.data_source = "fallback" <=> LimitUpPoolSilent(up)
        /\ v.data_source \in SourceTags
        /\ v.data_source = "fallback" =>
              /\ v.limit_up = 42 /\ v.limit_down = 9 /\ v.max_height = 3
              /\ v.break_rate = 2100
              /\ v.market_sentiment_score
                    = Round2(SentimentScore(42, 9, 3, Frac(21, 100)))
        /\ v.data_source = "akshare-live" =>
              /\ (~up.dt.ok \/ ToRecords(up.dt) = <<>>) => v.limit_down = 0
              /\ (~up.spot.ok) => v.turnover = Wide(0)
              /\ (~up.hasZb \/ ~up.zb.ok \/ ToRecords(up.zb) = <<>>) =>
                    LET open == UnsealedCount(ToRecords(up.zt[v.date + 1]))
                    IN  v.break_rate = RoundTo(Frac(open, v.limit_up + open), 4)

\* the limit-up pool answers only on an older date while the three other
\* sources all fail: the result is live
C7_Witness ==
    /\ Completed("get_market_sentiment")
    /\ up.runtime
    /\ ~up.zt[RecentTradeDates(up.today)[1] + 1].ok
    /\ ~up.dt.ok /\ ~up.zb.ok /\ ~up.spot.ok
    /\ ret.value.data_source = "akshare-live"
    /\ ret.value.limit_down = 0
    /\ ret.value.date > 0


\* the effective flag of the call: its own flag, or the process-wide toggle
\* holding one of the words 1, true, yes, on
DebugAsked ==
    \/ args.debug
    \/ Lower(Strip(args.env)) \in {<<"1">>, <<"t", "r", "u", "e">>, <<"y", "e", "s">>,
                                   <<"o", "n">>}

\* the operation of the current state run again on the same upstream answers
\* with debug off
DebugOffRun ==
    CASE op = "get_market_sentiment" -> GetMarketSentiment(up, FALSE)
      [] op = "get_sector_rotation" -> GetSectorRotation(up, args.top_n, FALSE)
      [] op = "scan_strong_stocks" ->
            ScanStrongStocks(up, args.sectors, args.top_n, FALSE)
      [] op = "analyze_capital_flow" -> AnalyzeCapitalFlow(up, args.symbol, FALSE)
      [] op = "short_term_signal_engine" -> ShortTermSignalEngine(up, FALSE)

StripItems(items) == [i \in 1..Len(items) |-> StripDebug(items[i])]

\* the returned value with every debug_info entry removed
WithoutDebugInfo ==
    CASE op = "scan_strong_stocks" -> StripItems(ret.value)
      [] op = "short_term_signal_engine" ->
            [StripDebug(ret.value) EXCEPT
                !.market_sentiment = StripDebug(@),
                !.candidates = StripItems(@),
                !.capital_flow = StripDebug(@)]
      [] OTHER -> StripDebug(ret.value)

\* the returned value carries diagnostics
CarriesDebugInfo ==
    IF op = "scan_strong_stocks"
    THEN \E i \in 1..Len(ret.value) : "debug_info" \in DOMAIN ret.value[i]
    ELSE "debug_info" \in DOMAIN ret.value

\* C8: run with debug on, a public operation returns what it returns with
\* debug off once the debug_info entries are removed, makes the same upstream
\* calls, and the fusion engine gives the same score, signal and confidence;
\* diagnostics are attached only when the call's flag or the process-wide
\* toggle asks for them, and then to every payload
C8_DebugNeutral ==
    op \in PublicOps =>
        LET off == DebugOffRun IN
        /\ ret.raised = off.ret.raised
        /\ calls = off.calls
        /\ ~ret.raised =>
              /\ WithoutDebugInfo = off.ret.value
              /\ CarriesDebugInfo => DebugAsked
              /\ (DebugAsked /\ op # "scan_strong_stocks") => CarriesDebugInfo
              /\ (DebugAsked /\ op = "scan_strong_stocks") =>
                    \A i \in 1..Len(ret.value) : "debug_info" \in DOMAIN ret.value[i]
              /\ op = "short_term_signal_engine" =>
                    /\ ret.value.score = off.ret.value.score
                    /\ ret.value.signal = off.ret.value.signal
                    /\ ret.value.confidence = off.ret.value.confidence

\* a live fused run with the flag set: diagnostics at the top and inside the
\* nested payloads
C8_Witness ==
    /\ Completed("short_term_signal_engine")
    /\ up.runtime
    /\ args.debug
    /\ "debug_info" \in DOMAIN ret.value
    /\ "debug_info" \in DOMAIN ret.value.market_sentiment
    /\ ret.value.candidates # <<>>
    /\ "debug_info" \in DOMAIN ret.value.candidates[1]
    /\ ret.value.signal = "SHORT_BUY"

\* the scan went past the fallbacks
LiveScan ==
    /\ Completed("scan_strong_stocks")
    /\ up.runtime /\ up.spot.ok /\ ToRecords(up.spot) # <<>>

ScanAllowed ==
    IF args.sectors = <<>> THEN {} ELSE ResolveAllowed(up, args.sectors).codes

\* the rules that come before the history is fetched
PassesSpotRules(row) ==
    /\ ~Le(Num(row, SpotChangeKeys, 0), 5 * Centi)
    /\ ~Le(Num(row, VolumeRatioKeys, 0), 150)
    /\ ScanAllowed # {} => Str(row, CodeKeys, <<>>) \in ScanAllowed

\* the rules on the history the endpoint answers for the row's code
PassesHistoryRules(row) ==
    LET resp == up.hist[Str(row, CodeKeys, <<>>)]
        h    == ToRecords(resp)
        n    == Len(h)
        prev == {i \in 1..(n - 1) : i >= n - 5}
        sum  == SumOver(LAMBDA i : IF i \in prev THEN h[i].chengjiaoliang.v ELSE 0, 1, n)
        last == h[n].chengjiaoliang.v
        \* last / (sum / |prev|) against 1.5 and 2.2
        high == sum > 0 /\ 2 * last * Cardinality(prev) > 3 * sum
        peak == sum > 0 /\ 10 * last * Cardinality(prev) > 22 * sum
        c1   == h[n].shoupan.v
        c0   == h[n - 1].shoupan.v
        fall == c0 # 0 /\ FLt(Frac((c1 - c0) * 100, c0), FInt(-2))
    IN  /\ resp.ok
        /\ n >= 5
        /\ h[n - 2].shoupan.v < c0 /\ c0 < c1
        /\ high
        /\ ~(h[n].kaipan.v > c1 /\ fall /\ peak)

\* C10: every candidate a live scan returns comes from a listed instrument
\* that passes every deep-filter rule (change above 5, volume-ratio field not
\* at or below 1.5, in the allow-set when constrained, a fetched history of
\* at least 5 rows, three rising closes, computed volume ratio above 1.5, no
\* high-volume bearish reversal), and the history is fetched only for
\* instruments that passed the rules before it
C10_DeepFilterDrops ==
    LiveScan =>
        LET rows == ToRecords(up.spot) IN
        /\ \A i \in 1..Len(ret.value) :
              \E j \in 1..Len(rows) :
                  /\ Str(rows[j], CodeKeys, <<>>) = ret.value[i].code
                  /\ PassesSpotRules(rows[j])
                  /\ PassesHistoryRules(rows[j])
        /\ \A k \in 1..Len(calls) :
              calls[k].api = "stock_zh_a_hist" =>
                  \E j \in 1..Len(rows) :
                      /\ Str(rows[j], CodeKeys, <<>>) = calls[k].arg
                      /\ PassesSpotRules(rows[j])

\* an instrument passes the first rules, its history answers with 4 rows,
\* and it is absent from a result that holds another instrument
C10_Witness ==
    /\ LiveScan
    /\ ret.value # <<>>
    /\ \E j \in 1..Len(ToRecords(up.spot)) :
          LET row  == ToRecords(up.spot)[j]
              code == Str(row, CodeKeys, <<>>)
          IN  /\ PassesSpotRules(row)
              /\ up.hist[code].ok
              /\ Len(ToRecords(up.hist[code])) = 4
              /\ \E k \in 1..Len(calls) :
                    calls[k].api = "stock_zh_a_hist" /\ calls[k].arg = code
              /\ \A i \in 1..Len(ret.value) : ret.value[i].code # code

-----------------------------------------------------------------------------
(* The capital flow analyzer's results *)

LiveCapital ==
    /\ Completed("analyze_capital_flow")
    /\ ret.value.data_source = "akshare-live"

\* C11: in a live capital-flow result northbound_inflow_days is the length
\* of the run of points above zero that closes the loaded series: it is 0
\* when the latest point is not above zero, it is at most the length of the
\* series, which is at most 20, and flow_trend is "{days}-day-inflow" when
\* the count is above zero and "outflow" otherwise
C11_TrailingInflowDays ==
    LiveCapital =>
        LET vals == LoadNorthboundSeries(up).vals
            n    == Len(vals)
            days == ret.value.northbound_inflow_days
        IN  /\ n <= SeriesWindow
            /\ days \in 0..n
            /\ \A j \in (n - days + 1)..n : vals[j] > 0
            /\ days < n => vals[n - days] <= 0
            /\ vals[n] <= 0 => days = 0
            /\ days > 0 => ret.value.flow_trend = NatChars(days) \o <<"-day-inflow">>
            /\ days = 0 => ret.value.flow_trend = <<"outflow">>
            /\ ret.value.flow_trend = <<"outflow">> => days = 0

\* a series of three points closes with two inflow days after an outflow
C11_Witness ==
    /\ LiveCapital
    /\ Len(LoadNorthboundSeries(up).vals) = 3
    /\ LoadNorthboundSeries(up).vals[1] < 0
    /\ ret.value.northbound_inflow_days = 2
    /\ ret.value.flow_trend = <<"2", "-day-inflow">>

\* the tier of a flow as the thresholds read
TierOf(flow) ==
    IF flow >= TierStrong THEN 5
    ELSE IF flow >= TierFair THEN 12
    ELSE IF flow >= 0 THEN 30
    ELSE 70

\* C12: in a live capital-flow result without a symbol main_flow is
\* northbound_net times 0.55, and in every live result strength_rank is the
\* tier of main_flow: 5 from 300,000,000, 12 from 150,000,000, 30 from 0,
\* 70 below
C12_RankIsTierOfMainFlow ==
    LiveCapital =>
        /\ args.symbol = <<>> =>
              /\ ret.value.northbound_net % 20 = 0
              /\ ret.value.main_flow = 11 * (ret.value.northbound_net \div 20)
        /\ ret.value.strength_rank = TierOf(ret.value.main_flow)

-----------------------------------------------------------------------------
(* The chaining of the scorers within one run of the engine *)

FusionDone == Completed("short_term_signal_engine")

\* C13: in a run of the engine the four scorers and the risk gate are invoked
\* once each and in this order before the payload is built; the scanner gets
\* exactly the names of the sectors the top-5 rotation returned, the capital
\* flow analyzer gets the code of the scanner's first candidate, or no symbol
\* when there is no candidate, and the risk gate gets the sentiment score;
\* the returned capital_flow.symbol is that code, or "market"
C13_ScorersChained ==
    FusionDone =>
        LET r == ret.value IN
        /\ [i \in 1..Len(invoked) |-> invoked[i].fn]
              = <<"get_market_sentiment", "get_sector_rotation", "scan_strong_stocks",
                  "analyze_capital_flow", "short_term_risk_control">>
        /\ invoked[2].arg = 5
        /\ Len(r.top_sectors) <= 5
        /\ invoked[3].arg = [i \in 1..Len(r.top_sectors) |-> r.top_sectors[i].name]
        /\ invoked[4].arg = IF r.candidates # <<>> THEN r.candidates[1].code ELSE <<>>
        /\ invoked[5].arg = r.market_sentiment.market_sentiment_score
        /\ r.capital_flow.symbol
              = IF r.candidates # <<>> /\ r.candidates[1].code # <<>>
                THEN r.candidates[1].code ELSE <<"market">>

\* a run with two candidates asks for the capital flow of the first, and a
\* run of sectors finds their names handed to the scanner
C13_Witness ==
    /\ FusionDone
    /\ Len(ret.value.candidates) = 2
    /\ ret.value.candidates[1].code # ret.value.candidates[2].code
    /\ invoked[4].arg = ret.value.candidates[1].code
    /\ ret.value.capital_flow.symbol = ret.value.candidates[1].code
    /\ ret.value.capital_flow.data_source = "akshare-live"
    /\ Len(invoked[3].arg) > 1

\* a run without a candidate asks for the market-wide capital flow
C13_WitnessMarket ==
    /\ FusionDone
    /\ ret.value.candidates = <<>>
    /\ invoked[4].arg = <<>>
    /\ ret.value.capital_flow.symbol = <<"market">>

-----------------------------------------------------------------------------
(* The sector rotation's result *)

\* the rows the rotation read: the industry table, or the concept table
\* when the industry table gave none
RotationRows ==
    LET rows1 == IF up.industry.ok THEN ToRecords(up.industry) ELSE <<>>
    IN  IF rows1 # <<>> \/ ~up.hasConcept THEN rows1
        ELSE IF up.concept.ok THEN ToRecords(up.concept) ELSE <<>>

\* where the sector of a name stands upstream
UpstreamPlace(name) ==
    CHOOSE i \in 1..Len(RotationRows) : Str(RotationRows[i], SectorNameKeys, <<"UNKNOWN">>) = name

\* the entries are in non-increasing strength, equal strengths in upstream
\* order when the result is live
RotationOrdered(top, live) ==
    \A i, j \in 1..Len(top) :
        i < j =>
            /\ top[i].strength >= top[j].strength
            /\ (live /\ top[i].strength = top[j].strength)
                  => UpstreamPlace(top[i].name) < UpstreamPlace(top[j].name)

\* a live result holds the first top_n sectors of the sorted list: all of
\* them when there are no more than top_n, and otherwise top_n of them, no
\* sector left out being stronger than, or as strong as and upstream of, one
\* in the result
RotationLeads(top) ==
    LET rows == RotationRows
        held == {UpstreamPlace(top[i].name) : i \in 1..Len(top)}
    IN  /\ Len(top) = Min2(args.top_n, Len(rows))
        /\ \A k \in (1..Len(rows)) \ held :
              \A i \in 1..Len(top) :
                  LET s == SectorEntry(rows[k],
                                       Max2(1, MaxOf({NumUnit(rows[m], SectorTurnoverKeys, 0) :
                                                        m \in 1..Len(rows)}))).strength
                  IN  \/ s < top[i].strength
                      \/ s = top[i].strength /\ UpstreamPlace(top[i].name) < k

\* C14: for every top_n >= 0, live or fallback, top_sectors has at most top_n
\* entries in non-increasing strength, equal strengths in upstream order;
\* live, it is the first top_n entries of the whole sorted list
C14_TopNOrdered ==
    Completed("get_sector_rotation") =>
        LET top  == ret.value.top_sectors
            live == ret.value.data_source = "akshare-live"
        IN  /\ Len(top) <= args.top_n
            /\ RotationOrdered(top, live)
            /\ live => RotationLeads(top)

-----------------------------------------------------------------------------
(* The probes of the limit-up pool *)

SentimentRun == Completed("get_market_sentiment") /\ up.runtime

\* the answer of the limit-up pool for the day of an offset is usable
PoolAnswers(offset) ==
    up.zt[offset + 1].ok /\ ToRecords(up.zt[offset + 1]) # <<>>

\* C15: the limit-up pool is probed first, for weekdays only, newest first
\* and none skipped, at most 10 times; a failed and an empty probe alike
\* lead to the next older weekday, and the first non-empty probe is the
\* last; the limit-down and the broken-board pool are then asked for the
\* date of that probe
C15_ProbesNewestFirst ==
    SentimentRun =>
        LET probes == {k \in 1..Len(calls) : calls[k].api = "stock_zt_pool_em"}
            m      == Cardinality(probes)
            days   == {o \in 0..(ProbeDays - 1) : WeekdayBefore(up.today, o) < 5}
        IN  /\ probes = 1..m
            /\ m <= 10
            /\ \A k \in probes :
                  /\ calls[k].arg \in days
                  /\ {calls[j].arg : j \in 1..(k - 1)} = {o \in days : o < calls[k].arg}
                  /\ k < m => ~PoolAnswers(calls[k].arg)
            /\ \/ m > 0 /\ PoolAnswers(calls[m].arg)
               \/ {calls[k].arg : k \in probes} = days
                  /\ \A o \in days : ~PoolAnswers(o)
                  /\ ret.value.data_source = "fallback"
            /\ \A k \in (1..Len(calls)) \ probes :
                  calls[k].api \in {"stock_zt_pool_dtgc_em", "stock_zt_pool_zbgc_em"}
                      => calls[k].arg = calls[m].arg
            /\ ret.value.data_source = "akshare-live" =>
                  /\ PoolAnswers(calls[m].arg)
                  /\ ret.value.date = calls[m].arg
                  /\ calls[m + 1].api = "stock_zt_pool_dtgc_em"
                  /\ up.hasZb => calls[m + 2].api = "stock_zt_pool_zbgc_em"

\* called on a Sunday: Sunday and Saturday are not probed, Friday's probe
\* fails, Thursday's is empty, Wednesday's answers, and the two other pools
\* are asked for Wednesday
C15_Witness ==
    /\ SentimentRun
    /\ up.today = 6
    /\ Len(calls) >= 5
    /\ [k \in 1..5 |-> calls[k].api]
          = <<"stock_zt_pool_em", "stock_zt_pool_em", "stock_zt_pool_em",
              "stock_zt_pool_dtgc_em", "stock_zt_pool_zbgc_em">>
    /\ [k \in 1..5 |-> calls[k].arg] = <<2, 3, 4, 4, 4>>
    /\ ~up.zt[3].ok /\ up.zt[4].ok
    /\ ret.value.data_source = "akshare-live"

-----------------------------------------------------------------------------
(* The allow-set of a scan *)

\* the codes a constituents answer lists
ListedCodes(resp) ==
    {Str(ToRecords(resp)[j], CodeKeys, <<>>) : j \in 1..Len(ToRecords(resp))} \ {<<>>}

\* the primary endpoint gives rows for the sector
PrimaryAnswers(name) ==
    /\ up.hasIndustryCons
    /\ up.industryCons[name].ok
    /\ ToRecords(up.industryCons[name]) # <<>>

\* the codes of a sector: from the primary endpoint, and from the alternative
\* one when the primary one fails or has no rows
CodesByEitherEndpoint(name) ==
    IF PrimaryAnswers(name) THEN ListedCodes(up.industryCons[name])
    ELSE IF up.hasConceptCons /\ up.conceptCons[name].ok
    THEN ListedCodes(up.conceptCons[name])
    ELSE {}

\* C16: with a sector allow-list, a live scan resolves the codes of each
\* listed sector from the primary constituents endpoint and, when that
\* endpoint fails or returns no rows for the sector, from the alternative
\* endpoint, which is then called; the allow-set is the union of the codes
\* so resolved
C16_AlternativeOnFailure ==
    (LiveScan /\ args.sectors # <<>>) =>
        /\ ScanAllowed
              = UNION {CodesByEitherEndpoint(args.sectors[i]) : i \in 1..Len(args.sectors)}
        /\ \A i \in 1..Len(args.sectors) :
              (~PrimaryAnswers(args.sectors[i]) /\ up.hasConceptCons) =>
                  \E k \in 1..Len(calls) :
                      /\ calls[k].api = "stock_board_concept_cons_em"
                      /\ calls[k].arg = args.sectors[i]

-----------------------------------------------------------------------------
(* The sources of the net-inflow series *)

CapitalRun == Completed("analyze_capital_flow") /\ up.runtime

\* the four sources in their order: the direct endpoint, then the statistics
\* endpoint under its three symbols
SeriesSources ==
    <<[api |-> "stock_hsgt_north_net_flow_in_em", arg |-> "beishang",
       resp |-> up.northFlow, keys |-> NorthFlowKeys, has |-> TRUE]>>
    \o [i \in 1..Len(NorthHistSymbols) |->
          [api |-> "stock_hsgt_hist_em", arg |-> NorthHistSymbols[i],
           resp |-> up.northHist[i], keys |-> NorthHistKeys, has |-> up.hasNorthHist]]

\* the non-zero points a source holds, in upstream order
ParsedSeries(src) ==
    IF ~src.resp.ok THEN <<>>
    ELSE LET rows == ToRecords(src.resp)
         IN  SelectSeq([j \in 1..Len(rows) |-> NumUnit(rows[j], src.keys, 0)],
                       LAMBDA x : x # 0)

\* the calls of a run to the sources of the series
SeriesCalls ==
    SelectSeq(calls, LAMBDA c : c.api \in {"stock_hsgt_north_net_flow_in_em",
                                           "stock_hsgt_hist_em"})

\* C17: the series is loaded from the direct endpoint first and then from the
\* statistics endpoint under its three symbols in their order, a source being
\* called only if every earlier one failed, was empty or held zeros only; the
\* loading stops at the first source with a non-empty parsed series, makes at
\* most 4 calls, and keeps at most the 20 newest non-zero points of that
\* source in upstream order; the result is the fallback exactly when no
\* source gives a non-empty series
C17_FirstSourceWithSeries ==
    CapitalRun =>
        LET made == SeriesCalls
            m    == Len(made)
            src  == SeriesSources
            kept == IF Len(ParsedSeries(src[m])) > 20
                    THEN SubSeq(ParsedSeries(src[m]), Len(ParsedSeries(src[m])) - 19,
                                Len(ParsedSeries(src[m])))
                    ELSE ParsedSeries(src[m])
            live == ret.value.data_source = "akshare-live"
        IN  /\ m \in 1..4
            /\ SubSeq(calls, 1, m) = made
            /\ \A k \in 1..m :
                  /\ made[k].api = src[k].api /\ made[k].arg = src[k].arg
                  /\ src[k].has
                  /\ made[k].ok = src[k].resp.ok
                  /\ \A j \in 1..(k - 1) : ParsedSeries(src[j]) = <<>>
            /\ \/ ParsedSeries(src[m]) # <<>>
               \/ m = 4
               \/ m = 1 /\ ~up.hasNorthHist
            /\ live <=> ParsedSeries(src[m]) # <<>>
            /\ live <=> \E k \in 1..4 : src[k].has /\ ParsedSeries(src[k]) # <<>>
            /\ ~live => ret.value.data_source = "fallback"
            /\ live =>
                  /\ ret.value.northbound_net = kept[Len(kept)]
                  /\ ret.value.northbound_inflow_days
                        = Cardinality({d \in 1..Len(kept) :
                                          \A j \in (Len(kept) - d + 1)..Len(kept) : kept[j] > 0})
                  /\ "debug_info" \in DOMAIN ret.value =>
                        ret.value.debug_info.derived.north_series_points = Len(kept)

\* the direct endpoint holds placeholders and zeros only, the statistics
\* endpoint is empty under its first symbol and fails under its second, and
\* the series comes from the third symbol
C17_Witness ==
    /\ CapitalRun
    /\ up.northFlow.ok /\ ToRecords(up.northFlow) # <<>>
    /\ Len(SeriesCalls) = 4
    /\ SeriesCalls[2].ok /\ SeriesCalls[2].rows = 0
    /\ ~SeriesCalls[3].ok
    /\ ret.value.data_source = "akshare-live"
    /\ ret.value.northbound_net = 60000000
    /\ ret.value.northbound_inflow_days = 2

-----------------------------------------------------------------------------
(* The coarse pre-filter of a scan *)

\* the history fetches among a run's calls
HistoryFetches(made) == SelectSeq(made, LAMBDA c : c.api = "stock_zh_a_hist")

\* C18: a live scan returns the candidates, and fetches the history of the
\* instruments, of at most 120 of them, that the same scan returns and
\* fetches with the coarse pre-filter at a change above 5 instead of above
\* 4.5: rows with a change above 4.5 and up to 5 take no slot of the
\* universe from a row with a change above 5
C18_PreFilterNeutral ==
    LiveScan =>
        LET Same(alt) ==
                /\ StripItems(ret.value) = StripItems(alt.ret.value)
                /\ HistoryFetches(calls) = HistoryFetches(alt.calls)
                /\ Len(HistoryFetches(calls)) <= 120
        IN  Same(ScanStrongStocksAt(up, args.sectors, args.top_n,
                                    ResolveDebug(args.debug, args.env),
                                    DeepFilterChange))

\* more rows pass the coarse pre-filter than the universe holds, rows with a
\* change between the thresholds are listed before the strong ones, and the
\* strong instrument listed after them is returned
C18_Witness ==
    /\ LiveScan
    /\ ret.value # <<>>
    /\ "debug_info" \in DOMAIN ret.value[1]
    /\ ret.value[1].debug_info.derived.pre_filtered > UniverseCap
    /\ ret.value[1].debug_info.derived.universe = UniverseCap
    /\ ret.value[1].code = StockCode(1)
    /\ LET first == Num(ToRecords(up.spot)[1], SpotChangeKeys, 0)
       IN  Gt(first, PreFilterChange) /\ Le(first, DeepFilterChange)

-----------------------------------------------------------------------------
(* The main flow of a symbol *)

\* a run for a symbol whose series loaded
SymbolRun ==
    /\ CapitalRun
    /\ args.symbol # <<>>
    /\ \E k \in 1..Len(SeriesSources) :
          SeriesSources[k].has /\ ParsedSeries(SeriesSources[k]) # <<>>

\* the flow-history endpoint gives rows
FlowHistoryYields == up.fund.ok /\ ToRecords(up.fund) # <<>>

\* the ranking table of an indicator holds a row of the symbol
WindowHolds(i) ==
    /\ up.rank[i].ok
    /\ \E j \in 1..Len(ToRecords(up.rank[i])) :
          RankCode(ToRecords(up.rank[i])[j]) = args.symbol

\* C19: with a symbol and a non-empty series the result is live whatever the
\* main-flow lookup meets; when the flow-history endpoint fails or is empty
\* and every ranking window fails, is empty or has no row of the symbol, the
\* result has main_flow 0 and strength_rank 30; the ranking windows are asked
\* in their fixed order only after the flow-history endpoint gave no rows, and
\* none is asked after the first window with a row of the symbol
C19_LookupFailureStaysLive ==
    SymbolRun =>
        LET lookups == SubSeq(calls, Len(SeriesCalls) + 1, Len(calls))
            windows == Tail(lookups)
            r       == Len(windows)
        IN  /\ ret.value.data_source = "akshare-live"
            /\ ret.value.symbol = args.symbol
            /\ lookups # <<>>
            /\ lookups[1].api = "stock_individual_fund_flow"
            /\ lookups[1].arg = args.symbol
            /\ r <= Len(RankIndicators)
            /\ \A k \in 1..r :
                  /\ windows[k].api = "stock_individual_fund_flow_rank"
                  /\ windows[k].arg = RankIndicators[k]
                  /\ ~FlowHistoryYields
                  /\ up.hasRank
                  /\ \A j \in 1..(k - 1) : ~WindowHolds(j)
            /\ (~FlowHistoryYields /\ up.hasRank) =>
                  /\ r >= 1
                  /\ WindowHolds(r) \/ r = Len(RankIndicators)
            /\ (~FlowHistoryYields
                    /\ (up.hasRank => \A i \in 1..Len(RankIndicators) : ~WindowHolds(i))) =>
                  /\ ret.value.main_flow = 0
                  /\ ret.value.strength_rank = 30

\* the flow-history endpoint fails, the first window fails, the second is
\* empty, the third has no row of the symbol, and the result is live with a
\* main flow of 0 in tier 30
C19_Witness ==
    /\ SymbolRun
    /\ ~up.fund.ok
    /\ up.hasRank
    /\ ~up.rank[1].ok
    /\ up.rank[2].ok /\ ToRecords(up.rank[2]) = <<>>
    /\ up.rank[3].ok /\ ToRecords(up.rank[3]) # <<>> /\ ~WindowHolds(3)
    /\ Len(calls) = Len(SeriesCalls) + 4
    /\ ret.value.data_source = "akshare-live"
    /\ ret.value.main_flow = 0
    /\ ret.value.strength_rank = 30

====
